---------------------------- MODULE Spec2Model ----------------------------
(***************************************************************************)
(* A model of the comparison and normalization engine of                   *)
(* survalyzer-compare (src/src/models.py, src/src/compare.py).             *)
(*                                                                         *)
(* A Python str is modelled as a sequence of one-character strings, so     *)
(* that prefix tests, slicing, lower(), isupper(), sorting and the         *)
(* SequenceMatcher ratio are computed character by character.  A float     *)
(* similarity or threshold is the exact fraction [num, den] with den > 0.  *)
(***************************************************************************)
EXTENDS Integers, Sequences, FiniteSets, TLC

VARIABLES
    pc,              \* position of the pipeline under study
    code,            \* normalize_code: the raw question code
    normalized,      \* normalize_code(code)
    renormalized,    \* normalize_code(normalize_code(code))
    old_texts,       \* compare_texts: argument old
    new_texts,       \* compare_texts: argument new
    threshold,       \* the similarity threshold passed to the comparison
    text_diffs,      \* compare_texts: the returned list of TextDiff
    old_question,    \* compare_questions: argument old
    new_question,    \* compare_questions: argument new
    question_diff,   \* compare_questions: the returned QuestionDiff
    questions_a,     \* compare_surveys: argument questions_a
    questions_b,     \* compare_surveys: argument questions_b
    question_diffs,  \* compare_surveys: ComparisonResult.question_diffs
    differ,          \* the coded-item differ called: choices, rows or columns
    old_coded,       \* _compare_coded_items: argument old_items
    new_coded,       \* _compare_coded_items: argument new_items
    coded_diffs,     \* the list of ChoiceDiff of (old_items, new_items)
    swapped_diffs,      \* the list of ChoiceDiff of (new_items, old_items)
    views,           \* ComparisonResult: the views matched, added, removed as read
    mutations,       \* ComparisonResult: number of changes made to question_diffs
    sources_in,      \* build_section_normalizer / ordered_sections: all_sources
    reference_in,    \* build_section_normalizer: reference_source
    aliases_in,      \* build_section_normalizer: aliases
    normalizer,      \* the SectionNormalizer built
    section_list,    \* SectionNormalizer.ordered_sections(all_sources)
    exports_in,      \* generate_master: the exports found, each a date and an extract
    masters,         \* generate_master.main: the list masters
    merged_master,   \* merge_masters(masters)
    master_qs,       \* extract_master: argument questions
    master_dict,     \* the outcome of extract_master(questions)
    master_file,     \* the YAML document save_master wrote, as edited since
    master_edit,     \* the hand edit made to the file, if any
    master_loaded,   \* load_master(path)
    master_rebuilt,  \* the outcome of master_to_questions(master)
    master_again,    \* extract_master of the reconstructed questions
    given,           \* the caller's names for its objects, and the objects before any call
    first_call,      \* the last operation called, its arguments and its outcome
    second_call,     \* the same operation called again, and its outcome
    heap,            \* the objects of the caller, a reference being a position in it
    master_given,    \* export_data: whether master_questions is not None
    exported         \* the outcome of export_data

normVars == <<code, normalized, renormalized>>
textVars == <<old_texts, new_texts, text_diffs>>
questionVars == <<old_question, new_question, question_diff>>
surveyVars == <<questions_a, questions_b, question_diffs>>
itemVars == <<differ, old_coded, new_coded, coded_diffs, swapped_diffs>>
viewVars == <<views, mutations>>
sectionVars == <<sources_in, reference_in, aliases_in, normalizer, section_list>>
mergeVars == <<exports_in, masters, merged_master>>
masterVars ==
    <<master_qs, master_dict, master_file, master_edit, master_loaded, master_rebuilt,
      master_again>>
pureVars == <<given, first_call, second_call, heap>>
exportVars == <<master_given, exported>>
storeVars == <<mergeVars, masterVars, pureVars, exportVars>>
laterVars == <<itemVars, viewVars, sectionVars, storeVars>>
vars == <<pc, threshold, normVars, textVars, questionVars, surveyVars, laterVars>>

-----------------------------------------------------------------------------
(* Bounds of the model.                                                     *)

MaxCodeLen == 4      \* characters of a question code
MaxTextLen == 3      \* characters of a text
MaxTexts == 2        \* entries of a list of LocalizedText
MaxItems == 2        \* entries of a list of options, rows or columns
MaxQuestions == 2    \* questions of a survey
MaxExports == 2      \* exports generate_master finds
MaxMutations == 1    \* changes a caller makes to ComparisonResult.question_diffs

-----------------------------------------------------------------------------
(* Python str as a sequence of characters.                                  *)

UpperLetters ==
    <<"A","B","C","D","E","F","G","H","I","J","K","L","M",
      "N","O","P","Q","R","S","T","U","V","W","X","Y","Z">>

LowerLetters ==
    <<"a","b","c","d","e","f","g","h","i","j","k","l","m",
      "n","o","p","q","r","s","t","u","v","w","x","y","z">>

Digits == <<"0","1","2","3","4","5","6","7","8","9">>

IndexIn(c, seq) == CHOOSE i \in 1..Len(seq) : seq[i] = c

InSeq(c, seq) == \E i \in 1..Len(seq) : seq[i] = c

\* str.isupper() of a one-character string
IsUpper(c) == InSeq(c, UpperLetters)

\* str.lower() of a one-character string
LowerChar(c) == IF InSeq(c, UpperLetters) THEN LowerLetters[IndexIn(c, UpperLetters)] ELSE c

\* str.lower()
Lower(s) == [i \in 1..Len(s) |-> LowerChar(s[i])]

\* ord() of a one-character string (ASCII letters, digits, space and hyphen)
Ord(c) ==
    IF InSeq(c, UpperLetters) THEN 64 + IndexIn(c, UpperLetters)
    ELSE IF InSeq(c, LowerLetters) THEN 96 + IndexIn(c, LowerLetters)
    ELSE IF InSeq(c, Digits) THEN 47 + IndexIn(c, Digits)
    ELSE IF c = "-" THEN 45
    ELSE 32

\* str.__lt__: lexicographic order by code point
RECURSIVE StrLess(_, _)
StrLess(s, t) ==
    IF t = <<>> THEN FALSE
    ELSE IF s = <<>> THEN TRUE
    ELSE IF Ord(Head(s)) # Ord(Head(t)) THEN Ord(Head(s)) < Ord(Head(t))
    ELSE StrLess(Tail(s), Tail(t))

\* str.startswith
StartsWith(s, prefix) ==
    Len(s) >= Len(prefix) /\ SubSeq(s, 1, Len(prefix)) = prefix

\* all strings over alphabet of length at most n
StringsUpTo(alphabet, n) == UNION {[1..k -> alphabet] : k \in 0..n}

-----------------------------------------------------------------------------
(* models.py: code normalization.                                           *)

IPRErgenisse == <<"I","P","R","E","r","g","e","n","i","s","s","e">>
IPRErgebnisse == <<"I","P","R","E","r","g","e","b","n","i","s","s","e">>

\* _CODE_ALIASES.get(c, c)
CodeAliasGet(c) == IF c = IPRErgenisse THEN IPRErgebnisse ELSE c

\* The prefix strip without the second-character test.
StripAnyPrefixed(c) ==
    IF Len(c) > 1 /\ c[1] \in {"F", "f", "I", "i"} THEN Tail(c) ELSE c

\* The prefix strip testing the uppercase prefixes only.
StripUpperPrefixed(c) ==
    IF Len(c) > 1 /\ c[1] \in {"F", "I"} /\ IsUpper(c[2]) THEN Tail(c) ELSE c

\* if len(code) > 1 and code[0] in 'FfIi' and code[1].isupper(): code = code[1:]
StripPrefix(c) ==
    IF Len(c) > 1 /\ c[1] \in {"F", "f", "I", "i"} /\ IsUpper(c[2]) THEN Tail(c) ELSE c

normalize_code(c) ==
    IF c = <<>> THEN c
    ELSE IF StartsWith(c, <<"I","P","R">>) THEN CodeAliasGet(c)
    ELSE CodeAliasGet(StripPrefix(c))

-----------------------------------------------------------------------------
(* Python dict: a sequence of [key, value] entries in insertion order; an   *)
(* assignment to an existing key keeps its position and replaces its value. *)

DictHas(d, k) == \E i \in 1..Len(d) : d[i].key = k

DictGet(d, k) == d[CHOOSE i \in 1..Len(d) : d[i].key = k].value

DictKeySet(d) == {d[i].key : i \in 1..Len(d)}

\* d[k] = v, the first value of a key being kept
DictSetKeepFirst(d, k, v) ==
    IF DictHas(d, k) THEN d ELSE Append(d, [key |-> k, value |-> v])

\* d[k] = v
DictSet(d, k, v) ==
    IF DictHas(d, k)
    THEN [i \in 1..Len(d) |-> IF d[i].key = k THEN [key |-> k, value |-> v] ELSE d[i]]
    ELSE Append(d, [key |-> k, value |-> v])

\* sorted(S) for a set of str
RECURSIVE SortedStrings(_)
SortedStrings(S) ==
    IF S = {} THEN <<>>
    ELSE LET least == CHOOSE x \in S : \A y \in S \ {x} : StrLess(x, y)
         IN <<least>> \o SortedStrings(S \ {least})

-----------------------------------------------------------------------------
(* compare.py: text similarity.  difflib.SequenceMatcher(None, a, b) with  *)
(* no junk: strings shorter than 200 characters have no "popular"          *)
(* characters, so every character of b is indexed.                         *)

FloatZero == [num |-> 0, den |-> 1]
FloatOne == [num |-> 1, den |-> 1]
FloatEq(x, y) == x.num * y.den = y.num * x.den
FloatGe(x, y) == x.num * y.den >= y.num * x.den
FloatGt(x, y) == x.num * y.den > y.num * x.den

DEFAULT_SIMILARITY_THRESHOLD == [num |-> 9, den |-> 10]

\* length of the common run a[i..], b[j..] inside a[..ahi], b[..bhi]
RECURSIVE RunLen(_, _, _, _, _, _)
RunLen(a, b, i, j, ahi, bhi) ==
    IF i > ahi \/ j > bhi THEN 0
    ELSE IF a[i] # b[j] THEN 0
    ELSE 1 + RunLen(a, b, i + 1, j + 1, ahi, bhi)

\* SequenceMatcher.find_longest_match on a[alo..ahi], b[blo..bhi] (1-based,
\* inclusive): the longest block, of those the one starting earliest in a,
\* of those the one starting earliest in b.
\* bestsize: the largest of the run lengths
LongestRun(sizes) ==
    IF sizes = {} THEN 0 ELSE CHOOSE k \in sizes : \A m \in sizes : m <= k

\* besti: the earliest start in a of a run of the longest size
EarliestInA(a, b, alo, ahi, blo, bhi, best) ==
    CHOOSE i \in alo..ahi :
        /\ \E j \in blo..bhi : RunLen(a, b, i, j, ahi, bhi) = best
        /\ \A i2 \in alo..(i - 1) :
             \A j \in blo..bhi : RunLen(a, b, i2, j, ahi, bhi) # best

\* bestj: the earliest start in b of a run of the longest size starting at besti
EarliestInB(a, b, besti, ahi, blo, bhi, best) ==
    CHOOSE j \in blo..bhi :
        /\ RunLen(a, b, besti, j, ahi, bhi) = best
        /\ \A j2 \in blo..(j - 1) : RunLen(a, b, besti, j2, ahi, bhi) # best

MatchAt(a, b, besti, ahi, blo, bhi, best) ==
    [i |-> besti, j |-> EarliestInB(a, b, besti, ahi, blo, bhi, best), size |-> best]

MatchOfSize(a, b, alo, ahi, blo, bhi, best) ==
    IF best = 0 THEN [i |-> alo, j |-> blo, size |-> 0]
    ELSE MatchAt(a, b, EarliestInA(a, b, alo, ahi, blo, bhi, best), ahi, blo, bhi, best)

find_longest_match(a, b, alo, ahi, blo, bhi) ==
    MatchOfSize(a, b, alo, ahi, blo, bhi,
                LongestRun({RunLen(a, b, i, j, ahi, bhi) : i \in alo..ahi, j \in blo..bhi}))

\* sum of the sizes of SequenceMatcher.get_matching_blocks()
RECURSIVE MatchedChars(_, _, _, _, _, _)

\* the block m, and the blocks to its left and to its right
MatchedAround(a, b, alo, ahi, blo, bhi, m) ==
    IF m.size = 0 THEN 0
    ELSE m.size
         + (IF alo < m.i /\ blo < m.j
            THEN MatchedChars(a, b, alo, m.i - 1, blo, m.j - 1) ELSE 0)
         + (IF m.i + m.size <= ahi /\ m.j + m.size <= bhi
            THEN MatchedChars(a, b, m.i + m.size, ahi, m.j + m.size, bhi) ELSE 0)

MatchedChars(a, b, alo, ahi, blo, bhi) ==
    MatchedAround(a, b, alo, ahi, blo, bhi, find_longest_match(a, b, alo, ahi, blo, bhi))

\* SequenceMatcher(None, a, b).ratio()
SequenceMatcherRatio(a, b) ==
    IF Len(a) + Len(b) > 0
    THEN [num |-> 2 * MatchedChars(a, b, 1, Len(a), 1, Len(b)), den |-> Len(a) + Len(b)]
    ELSE FloatOne

_similarity(a, b) == IF a = b THEN FloatOne ELSE SequenceMatcherRatio(a, b)

\* _text_status with "score > threshold" in place of "score >= threshold"
_text_status_strict(score, th) ==
    IF FloatEq(score, FloatOne) THEN "exact"
    ELSE IF FloatGt(score, th) THEN "similar"
    ELSE "different"

\* _text_status testing the threshold before the score of 1.0
_text_status_threshold_first(score, th) ==
    IF ~FloatGe(score, th) THEN "different"
    ELSE IF FloatEq(score, FloatOne) THEN "exact"
    ELSE "similar"

_text_status(score, th) ==
    IF FloatEq(score, FloatOne) THEN "exact"
    ELSE IF FloatGe(score, th) THEN "similar"
    ELSE "different"

\* the text index keyed by the language as written
RECURSIVE _build_text_index_cased(_)
_build_text_index_cased(texts) ==
    IF texts = <<>> THEN <<>>
    ELSE LET lt == texts[Len(texts)]
         IN DictSet(_build_text_index_cased(SubSeq(texts, 1, Len(texts) - 1)),
                    lt.language, lt.text)

\* {lt.language.lower(): lt.text for lt in texts}
RECURSIVE _build_text_index(_)
_build_text_index(texts) ==
    IF texts = <<>> THEN <<>>
    ELSE LET lt == texts[Len(texts)]
         IN DictSet(_build_text_index(SubSeq(texts, 1, Len(texts) - 1)),
                    Lower(lt.language), lt.text)

TextDiff(language, status, sim, old_text, new_text) ==
    [language |-> language, status |-> status, similarity |-> sim,
     old_text |-> old_text, new_text |-> new_text]

\* the TextDiff of a language both sides have
scored_text_diff(lang, old_text, new_text, score, th) ==
    TextDiff(lang, _text_status(score, th), score, old_text, new_text)

\* the body of the loop "for lang in all_langs"
text_diff_for(old_map, new_map, lang, th) ==
    IF ~DictHas(old_map, lang)
    THEN TextDiff(lang, "added", FloatZero, <<>>, DictGet(new_map, lang))
    ELSE IF ~DictHas(new_map, lang)
    THEN TextDiff(lang, "removed", FloatZero, DictGet(old_map, lang), <<>>)
    ELSE scored_text_diff(lang, DictGet(old_map, lang), DictGet(new_map, lang),
                          _similarity(DictGet(old_map, lang), DictGet(new_map, lang)), th)

\* the loop "for lang in all_langs"
text_diffs_over(old_map, new_map, all_langs, th) ==
    [n \in 1..Len(all_langs) |-> text_diff_for(old_map, new_map, all_langs[n], th)]

\* all_langs = sorted(set(old_map) | set(new_map))
compare_text_maps(old_map, new_map, th) ==
    text_diffs_over(old_map, new_map,
                    SortedStrings(DictKeySet(old_map) \cup DictKeySet(new_map)), th)

compare_texts(old, new, th) ==
    compare_text_maps(_build_text_index(old), _build_text_index(new), th)

-----------------------------------------------------------------------------
(* compare.py: coded items (answer options, matrix rows, matrix columns).   *)

\* {key: value for ...}: later entries replace earlier ones of the same key
RECURSIVE DictOf(_, _)
DictOf(keys, values) ==
    IF keys = <<>> THEN <<>>
    ELSE DictSet(DictOf(SubSeq(keys, 1, Len(keys) - 1), SubSeq(values, 1, Len(keys) - 1)),
                 keys[Len(keys)], values[Len(keys)])

\* a dict comprehension in which the first entry of a key would be kept
RECURSIVE DictOfKeepFirst(_, _)
DictOfKeepFirst(keys, values) ==
    IF keys = <<>> THEN <<>>
    ELSE DictSetKeepFirst(DictOfKeepFirst(SubSeq(keys, 1, Len(keys) - 1),
                                          SubSeq(values, 1, Len(keys) - 1)),
                          keys[Len(keys)], values[Len(keys)])

\* list(dict.fromkeys(seq)): the distinct elements in first-seen order
\* a key seen again moving to the end (last-seen order)
MoveToEnd(rest, k) == SelectSeq(rest, LAMBDA x : x # k) \o <<k>>

\* a key seen before keeps its place; a new key goes to the end
KeepOrAppend(rest, k) == IF InSeq(k, rest) THEN rest ELSE Append(rest, k)

RECURSIVE FromKeys(_)
FromKeys(seq) ==
    IF seq = <<>> THEN <<>>
    ELSE KeepOrAppend(FromKeys(SubSeq(seq, 1, Len(seq) - 1)), seq[Len(seq)])

CodedItem(c, texts) == [code |-> c, texts |-> texts]

ChoiceDiff(c, status, tds) == [code |-> c, status |-> status, text_diffs |-> tds]

\* [item.code for item in items]
ItemCodes(items) == [i \in 1..Len(items) |-> items[i].code]

\* the ChoiceDiff of a matched code, only a "different" text counting as a change
matched_item_diff_different_only(c, tds) ==
    ChoiceDiff(c,
               IF \E k \in 1..Len(tds) : tds[k].status = "different"
               THEN "text_changed" ELSE "unchanged",
               tds)

\* the ChoiceDiff of a code both sides have
matched_item_diff(c, tds) ==
    ChoiceDiff(c,
               IF \E k \in 1..Len(tds) : tds[k].status # "exact"
               THEN "text_changed" ELSE "unchanged",
               tds)

\* the body of the loop "for code in all_codes"
coded_item_diff(old_map, new_map, c, th) ==
    IF ~DictHas(old_map, c) THEN ChoiceDiff(c, "added", <<>>)
    ELSE IF ~DictHas(new_map, c) THEN ChoiceDiff(c, "removed", <<>>)
    ELSE matched_item_diff(c, compare_texts(DictGet(old_map, c).texts,
                                            DictGet(new_map, c).texts, th))

\* the loop "for code in all_codes"
coded_item_diffs(old_map, new_map, all_codes, th) ==
    [n \in 1..Len(all_codes) |-> coded_item_diff(old_map, new_map, all_codes[n], th)]

\* the differ enumerating the codes of old_items only
_compare_coded_items_old_codes(old_items, new_items, th) ==
    coded_item_diffs(DictOf(ItemCodes(old_items), old_items),
                     DictOf(ItemCodes(new_items), new_items),
                     FromKeys(ItemCodes(old_items)), th)

_compare_coded_items(old_items, new_items, th) ==
    coded_item_diffs(DictOf(ItemCodes(old_items), old_items),
                     DictOf(ItemCodes(new_items), new_items),
                     FromKeys(ItemCodes(old_items) \o ItemCodes(new_items)), th)

compare_choices(old, new, th) == _compare_coded_items(old, new, th)

compare_matrix_rows(old, new, th) == _compare_coded_items(old, new, th)

MatrixColumnGroup(columns) == [columns |-> columns]

\* [col for grp in groups for col in grp.columns]
RECURSIVE FlattenColumns(_)
FlattenColumns(groups) ==
    IF groups = <<>> THEN <<>> ELSE Head(groups).columns \o FlattenColumns(Tail(groups))

compare_matrix_columns(old_groups, new_groups, th) ==
    _compare_coded_items(FlattenColumns(old_groups), FlattenColumns(new_groups), th)

-----------------------------------------------------------------------------
(* compare.py: one question, and two surveys.                              *)

Question(c, element_type, texts, choices, matrix_rows, matrix_column_groups) ==
    [code |-> c, element_type |-> element_type, texts |-> texts, choices |-> choices,
     matrix_rows |-> matrix_rows, matrix_column_groups |-> matrix_column_groups]

QuestionDiff(c, element_type, status, tds, choice_diffs, row_diffs, column_diffs) ==
    [code |-> c, element_type |-> element_type, status |-> status, text_diffs |-> tds,
     choice_diffs |-> choice_diffs, matrix_row_diffs |-> row_diffs,
     matrix_column_diffs |-> column_diffs]

\* the branch taken only when both questions are Matrix
BothMatrix(old, new) == old.element_type = "Matrix" /\ new.element_type = "Matrix"

\* if old.element_type == "Matrix" or new.element_type == "Matrix"
EitherMatrix(old, new) == old.element_type = "Matrix" \/ new.element_type = "Matrix"

\* the status with a text change taking precedence over a structure change
question_status_text_first(tds, item_diffs) ==
    IF (\E k \in 1..Len(tds) : tds[k].status # "exact")
       \/ (\E k \in 1..Len(item_diffs) : item_diffs[k].status = "text_changed")
    THEN "text_changed"
    ELSE IF \E k \in 1..Len(item_diffs) : item_diffs[k].status \in {"added", "removed"}
    THEN "structure_changed"
    ELSE "identical"

\* compare_questions, "Determine overall status"
question_status(tds, item_diffs) ==
    LET has_text_change == \E k \in 1..Len(tds) : tds[k].status # "exact"
        has_structure_change ==
            \E k \in 1..Len(item_diffs) : item_diffs[k].status \in {"added", "removed"}
        has_child_text_change ==
            \E k \in 1..Len(item_diffs) : item_diffs[k].status = "text_changed"
    IN  IF has_structure_change THEN "structure_changed"
        ELSE IF has_text_change \/ has_child_text_change THEN "text_changed"
        ELSE "identical"

\* return QuestionDiff(code=old.code, element_type=old.element_type, ...)
question_diff_of(old, tds, choice_diffs, matrix_row_diffs, matrix_col_diffs) ==
    QuestionDiff(old.code, old.element_type,
                 question_status(tds, choice_diffs \o matrix_row_diffs \o matrix_col_diffs),
                 tds, choice_diffs, matrix_row_diffs, matrix_col_diffs)

\* the matrix branch listing the answer options among the matrix rows
compare_question_items_choices_as_rows(old, new, th, tds, matrix) ==
    question_diff_of(old, tds,
        IF matrix THEN <<>> ELSE compare_choices(old.choices, new.choices, th),
        IF matrix
        THEN compare_matrix_rows(old.matrix_rows \o old.choices,
                                 new.matrix_rows \o new.choices, th)
        ELSE <<>>,
        IF matrix
        THEN compare_matrix_columns(old.matrix_column_groups, new.matrix_column_groups, th)
        ELSE <<>>)

\* the three lists of item diffs, by whether the matrix branch is taken
compare_question_items(old, new, th, tds, matrix) ==
    question_diff_of(old, tds,
        IF matrix THEN <<>> ELSE compare_choices(old.choices, new.choices, th),
        IF matrix THEN compare_matrix_rows(old.matrix_rows, new.matrix_rows, th) ELSE <<>>,
        IF matrix
        THEN compare_matrix_columns(old.matrix_column_groups, new.matrix_column_groups, th)
        ELSE <<>>)

compare_questions(old, new, th) ==
    compare_question_items(old, new, th, compare_texts(old.texts, new.texts, th),
                           EitherMatrix(old, new))

\* the index of a question list in which the first question of a code is kept
\* [q.normalized_code for q in questions]
NormalizedCodesOf(questions) ==
    [i \in 1..Len(questions) |-> normalize_code(questions[i].code)]

question_index_keep_first(questions) ==
    DictOfKeepFirst(NormalizedCodesOf(questions), questions)

\* {q.normalized_code: q for q in questions}
question_index(questions) ==
    DictOf(NormalizedCodesOf(questions), questions)

\* the diff of a matched pair left with the code compare_questions gave it
matched_diff_raw_code(qa, qb, norm_code, th) == compare_questions(qa, qb, th)

\* diff = compare_questions(qa, qb, threshold); diff.code = norm_code
matched_diff(qa, qb, norm_code, th) ==
    [compare_questions(qa, qb, th) EXCEPT !.code = norm_code]

\* ComparisonResult.matched filtering out the added diffs only
matched_not_added(diffs) == SelectSeq(diffs, LAMBDA d : d.status # "added")

\* ComparisonResult.matched
matched(diffs) == SelectSeq(diffs, LAMBDA d : d.status \notin {"added", "removed"})

\* ComparisonResult.added
added(diffs) == SelectSeq(diffs, LAMBDA d : d.status = "added")

\* ComparisonResult.removed
removed(diffs) == SelectSeq(diffs, LAMBDA d : d.status = "removed")

\* the body of the loop "for norm_code in all_codes"
survey_diff_for(map_a, map_b, norm_code, th) ==
    IF ~DictHas(map_a, norm_code)
    THEN QuestionDiff(norm_code, DictGet(map_b, norm_code).element_type, "added",
                      <<>>, <<>>, <<>>, <<>>)
    ELSE IF ~DictHas(map_b, norm_code)
    THEN QuestionDiff(norm_code, DictGet(map_a, norm_code).element_type, "removed",
                      <<>>, <<>>, <<>>, <<>>)
    ELSE matched_diff(DictGet(map_a, norm_code), DictGet(map_b, norm_code), norm_code, th)

\* the loop "for norm_code in all_codes"
survey_diffs_over(map_a, map_b, all_codes, th) ==
    [n \in 1..Len(all_codes) |-> survey_diff_for(map_a, map_b, all_codes[n], th)]

compare_surveys(qs_a, qs_b, th) ==
    survey_diffs_over(question_index(qs_a), question_index(qs_b),
                      FromKeys(NormalizedCodesOf(qs_a) \o NormalizedCodesOf(qs_b)), th)

-----------------------------------------------------------------------------
(* sections.py: section name normalization.  all_sources and the dicts the  *)
(* builder fills are Python dicts (entries in insertion order).             *)

\* Python None (never equal to a str)
None == <<"None">>

Other == <<"O","t","h","e","r">>

\* SECTION_MERGE_THRESHOLD = 0.92
SECTION_MERGE_THRESHOLD == [num |-> 23, den |-> 25]

\* the whitespace str.strip() removes (space, tab, newline)
IsSpace(c) == c \in {" ", "\t", "\n"}

RECURSIVE LStrip(_)
LStrip(s) == IF s # <<>> /\ IsSpace(Head(s)) THEN LStrip(Tail(s)) ELSE s

RECURSIVE RStrip(_)
RStrip(s) ==
    IF s # <<>> /\ IsSpace(s[Len(s)]) THEN RStrip(SubSeq(s, 1, Len(s) - 1)) ELSE s

\* return name.strip() if name else name
_strip_section_name(name) == IF name = <<>> THEN name ELSE LStrip(RStrip(name))

\* q.section_name or "Other"
SectionNameOf(q) ==
    IF q.section_name = None \/ q.section_name = <<>> THEN Other ELSE q.section_name

\* the list seen of one source: its distinct section names, first seen first
RawNamesOf(questions) == FromKeys([i \in 1..Len(questions) |-> SectionNameOf(questions[i])])

\* raw_names_by_source
RawNamesBySource(all_sources) ==
    [i \in 1..Len(all_sources) |->
        [key |-> all_sources[i].key, value |-> RawNamesOf(all_sources[i].value)]]

DictKeys(d) == [i \in 1..Len(d) |-> d[i].key]

\* sources.remove(reference_source); sources.insert(0, reference_source)
_ordered_sources(raw_names_by_source, reference_source) ==
    IF DictHas(raw_names_by_source, reference_source)
    THEN <<reference_source>>
         \o SelectSeq(DictKeys(raw_names_by_source), LAMBDA k : k # reference_source)
    ELSE DictKeys(raw_names_by_source)

\* raw_names_by_source.get(source_name, [])
NamesOfSource(raw_names_by_source, source_name) ==
    IF DictHas(raw_names_by_source, source_name)
    THEN DictGet(raw_names_by_source, source_name) ELSE <<>>

\* the raw names in the order the two builder loops visit them
RECURSIVE VisitedRawNames(_, _)
VisitedRawNames(raw_names_by_source, ordered) ==
    IF ordered = <<>> THEN <<>>
    ELSE NamesOfSource(raw_names_by_source, Head(ordered))
         \o VisitedRawNames(raw_names_by_source, Tail(ordered))

\* Phase 1: name_map[raw] = stripped, for the raw names in visiting order
RECURSIVE StripPhase(_)
StripPhase(visited) ==
    IF visited = <<>> THEN <<>>
    ELSE DictSet(StripPhase(SubSeq(visited, 1, Len(visited) - 1)),
                 visited[Len(visited)], _strip_section_name(visited[Len(visited)]))

\* Phase 2, one entry, the raw name looked up before the stripped name
AliasEntryRawFirst(entry, aliases) ==
    IF DictHas(aliases, entry.key)
    THEN [key |-> entry.key, value |-> DictGet(aliases, entry.key)]
    ELSE IF DictHas(aliases, entry.value)
    THEN [key |-> entry.key, value |-> DictGet(aliases, entry.value)]
    ELSE entry

\* Phase 2, one entry: the alias of the stripped name, else of the raw name
AliasEntry(entry, aliases) ==
    IF DictHas(aliases, entry.value)
    THEN [key |-> entry.key, value |-> DictGet(aliases, entry.value)]
    ELSE IF DictHas(aliases, entry.key)
    THEN [key |-> entry.key, value |-> DictGet(aliases, entry.key)]
    ELSE entry

\* Phase 2: for raw, canonical in name_map.items()
AliasPhase(name_map, aliases) ==
    [i \in 1..Len(name_map) |-> AliasEntry(name_map[i], aliases)]

\* [name_map[raw] for raw in names]
MapNames(name_map, names) == [i \in 1..Len(names) |-> DictGet(name_map, names[i])]

\* canonical_names: the distinct canonical names in visiting order
CanonicalNames(name_map, visited) == FromKeys(MapNames(name_map, visited))

\* SequenceMatcher(None, name_a.lower(), name_b.lower()).ratio()
SectionSimilarity(name_a, name_b) == SequenceMatcherRatio(Lower(name_a), Lower(name_b))

\* the body of the inner loop merging the earlier name into the later one
MergePairIntoLater(merged, ref_names, name_a, name_b) ==
    IF DictHas(merged, name_b) THEN merged
    ELSE IF FloatGe(SectionSimilarity(name_a, name_b), SECTION_MERGE_THRESHOLD)
    THEN DictSet(merged, name_a, name_b)
    ELSE merged

\* the body of the inner loop of phase 3
MergePair(merged, ref_names, name_a, name_b) ==
    IF DictHas(merged, name_b) THEN merged
    ELSE IF FloatGe(SectionSimilarity(name_a, name_b), SECTION_MERGE_THRESHOLD)
    THEN IF InSeq(name_a, ref_names) THEN DictSet(merged, name_b, name_a)
         ELSE IF InSeq(name_b, ref_names) THEN DictSet(merged, name_a, name_b)
         ELSE DictSet(merged, name_b, name_a)
    ELSE merged

\* for name_b in canonical_names[i + 1:]
RECURSIVE MergeInner(_, _, _, _, _)
MergeInner(merged, ref_names, names, i, j) ==
    IF j > Len(names) THEN merged
    ELSE MergeInner(MergePair(merged, ref_names, names[i], names[j]),
                    ref_names, names, i, j + 1)

\* the outer loop without "if name_a in merged: continue"
RECURSIVE MergeOuterNoSkip(_, _, _, _)
MergeOuterNoSkip(merged, ref_names, names, i) ==
    IF i > Len(names) THEN merged
    ELSE MergeOuterNoSkip(MergeInner(merged, ref_names, names, i, i + 1),
                          ref_names, names, i + 1)

\* for i, name_a in enumerate(canonical_names)
RECURSIVE MergeOuter(_, _, _, _)
MergeOuter(merged, ref_names, names, i) ==
    IF i > Len(names) THEN merged
    ELSE MergeOuter(IF DictHas(merged, names[i]) THEN merged
                    ELSE MergeInner(merged, ref_names, names, i, i + 1),
                    ref_names, names, i + 1)

\* Phase 3: the dict merged
FuzzyMerge(canonical_names, ref_names) == MergeOuter(<<>>, ref_names, canonical_names, 1)

\* Apply merge to name_map
ApplyMerge(name_map, merged) ==
    [i \in 1..Len(name_map) |->
        IF DictHas(merged, name_map[i].value)
        THEN [key |-> name_map[i].key, value |-> DictGet(merged, name_map[i].value)]
        ELSE name_map[i]]

\* alias_display[canonical].append(stripped) without the membership test
AddAliasAlways(alias_display, canonical, stripped) ==
    IF ~DictHas(alias_display, canonical)
    THEN Append(alias_display, [key |-> canonical, value |-> <<stripped>>])
    ELSE DictSet(alias_display, canonical, Append(DictGet(alias_display, canonical), stripped))

\* alias_display.setdefault(canonical, []); append stripped if not in it
AddAlias(alias_display, canonical, stripped) ==
    IF ~DictHas(alias_display, canonical)
    THEN Append(alias_display, [key |-> canonical, value |-> <<stripped>>])
    ELSE DictSet(alias_display, canonical,
                 KeepOrAppend(DictGet(alias_display, canonical), stripped))

\* the body of the loop building alias_display
AliasDisplayStep(alias_display, entry) ==
    IF _strip_section_name(entry.key) # entry.value
    THEN AddAlias(alias_display, entry.value, _strip_section_name(entry.key))
    ELSE alias_display

\* Build reverse map for aliases display
RECURSIVE AliasDisplay(_)
AliasDisplay(name_map) ==
    IF name_map = <<>> THEN <<>>
    ELSE AliasDisplayStep(AliasDisplay(SubSeq(name_map, 1, Len(name_map) - 1)),
                          name_map[Len(name_map)])

SectionNormalizer(name_map, alias_display, raw_names_by_source, reference_source) ==
    [name_map |-> name_map, alias_display |-> alias_display,
     raw_names_by_source |-> raw_names_by_source, reference_source |-> reference_source]

\* the normalizer of a finished name_map
BuildFromMerged(name_map, raw_names_by_source, reference_source) ==
    SectionNormalizer(name_map, AliasDisplay(name_map), raw_names_by_source, reference_source)

\* phases 3 and later, from the name_map of phases 1 and 2
BuildFromAliased(name_map, visited, raw_names_by_source, reference_source) ==
    BuildFromMerged(
        ApplyMerge(name_map,
                   FuzzyMerge(CanonicalNames(name_map, visited),
                              MapNames(name_map,
                                       NamesOfSource(raw_names_by_source, reference_source)))),
        raw_names_by_source, reference_source)

\* phases 1 and later, from the raw names in visiting order
BuildFromVisited(visited, raw_names_by_source, reference_source, aliases) ==
    BuildFromAliased(AliasPhase(StripPhase(visited), aliases), visited,
                     raw_names_by_source, reference_source)

\* the builder from raw_names_by_source on
BuildFromRawNames(raw_names_by_source, reference_source, aliases) ==
    BuildFromVisited(
        VisitedRawNames(raw_names_by_source,
                        _ordered_sources(raw_names_by_source, reference_source)),
        raw_names_by_source, reference_source, aliases)

build_section_normalizer(all_sources, reference_source, aliases) ==
    BuildFromRawNames(RawNamesBySource(all_sources), reference_source, aliases)

\* SectionNormalizer.normalize
normalize(self, raw_name) ==
    IF DictHas(self.name_map, raw_name) THEN DictGet(self.name_map, raw_name)
    ELSE _strip_section_name(raw_name)

\* SectionNormalizer.aliases_for
aliases_for(self, canonical_name) ==
    IF DictHas(self.alias_display, canonical_name)
    THEN DictGet(self.alias_display, canonical_name) ELSE <<>>

\* SectionNormalizer.all_aliases
all_aliases(self) == SelectSeq(self.alias_display, LAMBDA e : e.value # <<>>)

\* whether q.section_index can be read: the attribute is absent from a
\* Question that the dataclass of models.py constructed
HasSectionIndex(q) == "section_index" \in DOMAIN q

\* the position of the question that sorted() puts first: the least
\* section_index, the earliest of equals
FirstByIndex(questions) ==
    CHOOSE i \in 1..Len(questions) :
        \A j \in 1..Len(questions) :
            \/ questions[j].section_index > questions[i].section_index
            \/ questions[j].section_index = questions[i].section_index /\ j >= i

RemoveAt(seq, i) == SubSeq(seq, 1, i - 1) \o SubSeq(seq, i + 1, Len(seq))

\* sorted(questions, key=lambda q: q.section_index)
RECURSIVE SortedBySectionIndex(_)
TakeFirstByIndex(questions, i) ==
    <<questions[i]>> \o SortedBySectionIndex(RemoveAt(questions, i))

SortedBySectionIndex(questions) ==
    IF questions = <<>> THEN <<>> ELSE TakeFirstByIndex(questions, FirstByIndex(questions))

\* all_sources.get(source_name, [])
QuestionsOfSource(all_sources, source_name) ==
    IF DictHas(all_sources, source_name) THEN DictGet(all_sources, source_name) ELSE <<>>

\* the questions in the order the two loops of ordered_sections visit them
RECURSIVE VisitedQuestions(_, _)
VisitedQuestions(all_sources, sources) ==
    IF sources = <<>> THEN <<>>
    ELSE SortedBySectionIndex(QuestionsOfSource(all_sources, Head(sources)))
         \o VisitedQuestions(all_sources, Tail(sources))

\* if canonical not in section_codes: section_order.append(canonical);
\*                                    section_codes[canonical] = []
OpenSection(section_codes, canonical) ==
    IF DictHas(section_codes, canonical) THEN section_codes
    ELSE Append(section_codes, [key |-> canonical, value |-> <<>>])

\* if q.normalized_code not in seen_codes: section_codes[canonical].append(...)
ListCode(section_codes, canonical, ncode) ==
    IF \E i \in 1..Len(section_codes) : InSeq(ncode, section_codes[i].value)
    THEN section_codes
    ELSE DictSet(section_codes, canonical, Append(DictGet(section_codes, canonical), ncode))

\* the body of the inner loop for one question
VisitQuestion(self, section_codes, q) ==
    ListCode(OpenSection(section_codes, normalize(self, SectionNameOf(q))),
             normalize(self, SectionNameOf(q)), normalize_code(q.code))

\* section_codes after the loops, its keys being section_order
RECURSIVE SectionCodes(_, _)
SectionCodes(self, visited) ==
    IF visited = <<>> THEN <<>>
    ELSE VisitQuestion(self, SectionCodes(self, SubSeq(visited, 1, Len(visited) - 1)),
                       visited[Len(visited)])

\* entry = {"name": name, "codes": section_codes[name]}, with "aliases" when
\* aliases_for(name) is not empty
SectionEntry(name, codes, aliases) ==
    IF aliases = <<>> THEN [name |-> name, codes |-> codes]
    ELSE [name |-> name, codes |-> codes, aliases |-> aliases]

SectionEntries(self, section_codes) ==
    [i \in 1..Len(section_codes) |->
        SectionEntry(section_codes[i].key, section_codes[i].value,
                     aliases_for(self, section_codes[i].key))]

\* whether sorted() raises AttributeError on reading q.section_index
OrderedSectionsRaises(all_sources) ==
    \E i \in 1..Len(all_sources) :
        \E k \in 1..Len(all_sources[i].value) : ~HasSectionIndex(all_sources[i].value[k])

\* SectionNormalizer.ordered_sections, for questions whose section_index can
\* be read
ordered_sections(self, all_sources) ==
    SectionEntries(self,
        SectionCodes(self,
            VisitedQuestions(all_sources,
                             _ordered_sources(all_sources, self.reference_source))))

-----------------------------------------------------------------------------
(* master.py: the master store. A Python dict with str keys is a sequence   *)
(* of [key, value] entries as above; the keys of a question's dict are the  *)
(* literals of question_to_dict.                                            *)

\* the fields the dataclass Question declares (models.py)
QuestionFields ==
    {"id", "code", "element_type", "texts", "hint_texts", "choices", "matrix_rows",
     "matrix_column_groups", "force_response", "section_name", "conditions"}

\* whether Question(**kwargs) raises TypeError: a keyword that is no field
ConstructorRaises(keywords) == ~(keywords \subseteq QuestionFields)

\* the keywords dict_to_question passes to Question
DictToQuestionKeywords ==
    {"id", "code", "element_type", "texts", "section_name", "section_index"}

\* a Question with a section name
SectionedQuestion(q, section_name) ==
    [code |-> q.code, element_type |-> q.element_type, texts |-> q.texts,
     choices |-> q.choices, matrix_rows |-> q.matrix_rows,
     matrix_column_groups |-> q.matrix_column_groups, section_name |-> section_name]

\* a Question object on which a caller has set the attribute section_index
\* after construction: the constructor takes no such keyword, and nothing in
\* the repository makes such an object
WithSectionIndex(q, section_index) ==
    [code |-> q.code, element_type |-> q.element_type, texts |-> q.texts,
     choices |-> q.choices, matrix_rows |-> q.matrix_rows,
     matrix_column_groups |-> q.matrix_column_groups, section_name |-> q.section_name,
     section_index |-> section_index]

\* {lt.language: lt.text for lt in texts}
_texts_to_dict(texts) ==
    DictOf([i \in 1..Len(texts) |-> texts[i].language], [i \in 1..Len(texts) |-> texts[i].text])

\* _choice_to_dict, _matrix_row_to_dict, _matrix_col_to_dict
_item_to_dict(item) ==
    <<[key |-> "code", value |-> item.code],
      [key |-> "texts", value |-> _texts_to_dict(item.texts)]>>

_items_to_dicts(items) == [i \in 1..Len(items) |-> _item_to_dict(items[i])]

\* an entry of d set only if the condition holds
OptionalEntry(condition, k, v) == IF condition THEN <<[key |-> k, value |-> v]>> ELSE <<>>

\* question_to_dict, for a question whose section_index can be read
question_to_dict(q) ==
    <<[key |-> "element_type", value |-> q.element_type],
      [key |-> "texts", value |-> _texts_to_dict(q.texts)]>>
    \o OptionalEntry(q.section_name # None /\ q.section_name # <<>>,
                     "section_name", q.section_name)
    \o OptionalEntry(q.section_index # 0, "section_index", q.section_index)
    \o OptionalEntry(q.choices # <<>>, "choices", _items_to_dicts(q.choices))
    \o OptionalEntry(q.matrix_rows # <<>>, "matrix_rows", _items_to_dicts(q.matrix_rows))
    \o OptionalEntry(q.matrix_column_groups # <<>>, "matrix_columns",
                     _items_to_dicts(FlattenColumns(q.matrix_column_groups)))

\* whether extract_master raises AttributeError on reading q.section_index
ExtractMasterRaises(questions) ==
    \E k \in 1..Len(questions) : ~HasSectionIndex(questions[k])

\* {q.normalized_code: question_to_dict(q) for q in questions}
extract_master(questions) ==
    DictOf(NormalizedCodesOf(questions),
           [i \in 1..Len(questions) |-> question_to_dict(questions[i])])

\* whether master_to_questions raises TypeError: dict_to_question constructs
\* a Question for every entry of the master
MasterToQuestionsRaises(master) ==
    master # <<>> /\ ConstructorRaises(DictToQuestionKeywords)

\* the outcome of a call: the value returned, or the exception raised
Returned(value) == [raised |-> "none", value |-> value]

Raised(exception) == [raised |-> exception, value |-> <<>>]

\* [dict_to_question(code, data) for code, data in master.items()]: the
\* empty list for a master without entries, the TypeError of the first
\* Question(...) otherwise
master_to_questions(master) ==
    IF MasterToQuestionsRaises(master) THEN Raised("TypeError") ELSE Returned(<<>>)

\* yaml.dump and yaml.safe_load (PyYAML, YAML 1.1) on the values of a master,
\* for text of letters, digits and spaces. A plain scalar is resolved by its
\* text: to a bool, to null, to an int (decimal without a leading 0, octal
\* with one, 0x hexadecimal, 0b binary), and to a str otherwise. A str is
\* written as a plain scalar if a plain scalar of that text is resolved to
\* a str and the text is not empty and has no space at either end; it is
\* quoted otherwise. An int is written as its decimal digits.
OctalDigits == <<"0","1","2","3","4","5","6","7">>

BinaryDigits == <<"0","1">>

HexDigits == Digits \o <<"a","b","c","d","e","f">>

AllIn(text, chars) == text # <<>> /\ \A i \in 1..Len(text) : InSeq(text[i], chars)

TrueWords ==
    { <<"y","e","s">>, <<"Y","e","s">>, <<"Y","E","S">>, <<"t","r","u","e">>,
      <<"T","r","u","e">>, <<"T","R","U","E">>, <<"o","n">>, <<"O","n">>, <<"O","N">> }

FalseWords ==
    { <<"n","o">>, <<"N","o">>, <<"N","O">>, <<"f","a","l","s","e">>,
      <<"F","a","l","s","e">>, <<"F","A","L","S","E">>, <<"o","f","f">>, <<"O","f","f">>,
      <<"O","F","F">> }

NullWords == { <<>>, <<"n","u","l","l">>, <<"N","u","l","l">>, <<"N","U","L","L">> }

\* 0b[0-1]+
IsBinaryInt(text) ==
    Len(text) >= 3 /\ text[1] = "0" /\ text[2] = "b"
    /\ AllIn(SubSeq(text, 3, Len(text)), BinaryDigits)

\* 0x[0-9a-fA-F]+
IsHexInt(text) ==
    Len(text) >= 3 /\ text[1] = "0" /\ text[2] = "x"
    /\ AllIn(Lower(SubSeq(text, 3, Len(text))), HexDigits)

\* 0[0-7]+
IsOctalInt(text) == Len(text) >= 2 /\ text[1] = "0" /\ AllIn(Tail(text), OctalDigits)

\* 0|[1-9][0-9]*
IsDecimalInt(text) == text = <<"0">> \/ (AllIn(text, Digits) /\ text[1] # "0")

ResolvesInt(text) ==
    IsBinaryInt(text) \/ IsHexInt(text) \/ IsOctalInt(text) \/ IsDecimalInt(text)

PlainIsStr(text) ==
    /\ text # <<>>
    /\ text[1] # " " /\ text[Len(text)] # " "
    /\ ~ResolvesInt(text)
    /\ text \notin TrueWords \cup FalseWords \cup NullWords

YamlStr(text) == [style |-> IF PlainIsStr(text) THEN "plain" ELSE "quoted", text |-> text]

RECURSIVE IntToDigits(_)
IntToDigits(n) ==
    IF n < 10 THEN <<Digits[n + 1]>> ELSE Append(IntToDigits(n \div 10), Digits[(n % 10) + 1])

\* int(text, base)
RECURSIVE DigitsToInt(_, _)
DigitsToInt(text, base) ==
    IF text = <<>> THEN 0
    ELSE base * DigitsToInt(SubSeq(text, 1, Len(text) - 1), base)
         + (IndexIn(LowerChar(text[Len(text)]), HexDigits) - 1)

\* construct_yaml_int
YamlConstructInt(text) ==
    IF IsBinaryInt(text) THEN DigitsToInt(SubSeq(text, 3, Len(text)), 2)
    ELSE IF IsHexInt(text) THEN DigitsToInt(SubSeq(text, 3, Len(text)), 16)
    ELSE IF IsOctalInt(text) THEN DigitsToInt(text, 8)
    ELSE DigitsToInt(text, 10)

YamlInt(n) == [style |-> "plain", text |-> IntToDigits(n)]

\* the value safe_load constructs from a scalar: a str as its text, an int
\* as a number, True and False as TRUE and FALSE, None for null
YamlLoadScalar(node) ==
    IF node.style = "quoted" THEN node.text
    ELSE IF node.text \in NullWords THEN None
    ELSE IF node.text \in TrueWords THEN TRUE
    ELSE IF node.text \in FalseWords THEN FALSE
    ELSE IF ResolvesInt(node.text) THEN YamlConstructInt(node.text)
    ELSE node.text

\* a mapping of str to str: the texts of a question or of an item
YamlDumpTexts(texts) ==
    [i \in 1..Len(texts) |-> [key |-> YamlStr(texts[i].key), value |-> YamlStr(texts[i].value)]]

YamlLoadTexts(node) ==
    [i \in 1..Len(node) |->
        [key |-> YamlLoadScalar(node[i].key), value |-> YamlLoadScalar(node[i].value)]]

\* a choice, matrix row or matrix column: code and texts
YamlDumpItem(item) ==
    <<[key |-> "code", value |-> YamlStr(DictGet(item, "code"))],
      [key |-> "texts", value |-> YamlDumpTexts(DictGet(item, "texts"))]>>

YamlLoadItem(node) ==
    <<[key |-> "code", value |-> YamlLoadScalar(DictGet(node, "code"))],
      [key |-> "texts", value |-> YamlLoadTexts(DictGet(node, "texts"))]>>

\* the value of one key of a question's dict
YamlDumpField(k, v) ==
    IF k = "element_type" THEN v
    ELSE IF k = "texts" THEN YamlDumpTexts(v)
    ELSE IF k = "section_name" THEN YamlStr(v)
    ELSE IF k = "section_index" THEN YamlInt(v)
    ELSE [i \in 1..Len(v) |-> YamlDumpItem(v[i])]

YamlLoadField(k, node) ==
    IF k = "element_type" THEN node
    ELSE IF k = "texts" THEN YamlLoadTexts(node)
    ELSE IF k \in {"section_name", "section_index"} THEN YamlLoadScalar(node)
    ELSE [i \in 1..Len(node) |-> YamlLoadItem(node[i])]

YamlDumpQuestion(d) ==
    [i \in 1..Len(d) |-> [key |-> d[i].key, value |-> YamlDumpField(d[i].key, d[i].value)]]

YamlLoadQuestion(node) ==
    [i \in 1..Len(node) |->
        [key |-> node[i].key, value |-> YamlLoadField(node[i].key, node[i].value)]]

\* yaml.dump(master, f, default_flow_style=False, allow_unicode=True,
\*           sort_keys=False): the entries in insertion order
save_master(master) ==
    [i \in 1..Len(master) |->
        [key |-> YamlStr(master[i].key), value |-> YamlDumpQuestion(master[i].value)]]

\* yaml.safe_load(f) or {}
load_master(document) ==
    [i \in 1..Len(document) |->
        [key |-> YamlLoadScalar(document[i].key),
         value |-> YamlLoadQuestion(document[i].value)]]

\* the text of a scalar as the file holds it: a plain scalar begins and
\* ends at a character that is not a space
ScalarText(style, text) == IF style = "plain" THEN LStrip(RStrip(text)) ELSE text

\* the document with the text of one language of one question replaced in
\* the file, the scalar keeping the style it was written in
EditedDocument(document, n, m, text) ==
    [document EXCEPT ![n].value =
        [i \in 1..Len(@) |->
            IF @[i].key = "texts"
            THEN [key |-> "texts",
                  value |-> [@[i].value EXCEPT
                                ![m].value.text =
                                    ScalarText(document[n].value[i].value[m].value.style, text)]]
            ELSE @[i]]]

\* merged.update(master)
RECURSIVE DictUpdate(_, _)
DictUpdate(merged, master) ==
    IF master = <<>> THEN merged
    ELSE DictUpdate(DictSet(merged, Head(master).key, Head(master).value), Tail(master))

\* for master in reversed(masters): merged.update(master)
RECURSIVE merge_masters(_)
merge_masters(the_masters) ==
    IF the_masters = <<>> THEN <<>>
    ELSE DictUpdate(merge_masters(Tail(the_masters)), Head(the_masters))

\* sorted(files, key=sort_key): ascending date, equal dates in the order given
FirstByDate(files) ==
    CHOOSE i \in 1..Len(files) :
        \A j \in 1..Len(files) :
            \/ files[j].date > files[i].date
            \/ files[j].date = files[i].date /\ j >= i

RECURSIVE sort_files_by_date(_)
TakeFirstByDate(files, i) == <<files[i]>> \o sort_files_by_date(RemoveAt(files, i))

sort_files_by_date(files) ==
    IF files = <<>> THEN <<>> ELSE TakeFirstByDate(files, FirstByDate(files))

\* load_and_parse(jf): parse.py builds the first question element of the
\* export with Question(..., section_index=section_index), which raises
\* TypeError
LoadAndParseRaises(questions) == questions # <<>>

\* whether the loop of generate_master.main building masters raises
MainRaises(files) == \E i \in 1..Len(files) : LoadAndParseRaises(files[i].questions)

\* the per-export extracts: extract_master of each export's questions
ExtractsOf(files) == [i \in 1..Len(files) |-> extract_master(files[i].questions)]

-----------------------------------------------------------------------------
(* The code normalizer applied to a code, and applied again to its own     *)
(* result.                                                                  *)

CodeAlphabet == {"F", "f", "I", "i", "P", "R", "X", "a"}

SpecialCodes ==
    { IPRErgenisse, IPRErgebnisse, <<"F">> \o IPRErgenisse, <<"i">> \o IPRErgenisse,
      <<"I","s","t","a","r","t","u","p">> }

CodeInputs == StringsUpTo(CodeAlphabet, MaxCodeLen) \cup SpecialCodes

\* a result not computed yet (never equal to a str)
NoString == <<"<unset>">>

\* a Question or QuestionDiff not supplied or not computed yet
NoRecord == [code |-> NoString]

\* the variables of the operations a specification does not exercise
NormIdle == code = <<>> /\ normalized = NoString /\ renormalized = NoString
TextsIdle == old_texts = <<>> /\ new_texts = <<>> /\ text_diffs = <<>>
QuestionIdle == old_question = NoRecord /\ new_question = NoRecord /\ question_diff = NoRecord
SurveyIdle == questions_a = <<>> /\ questions_b = <<>> /\ question_diffs = <<>>
ItemsIdle ==
    /\ differ = "none" /\ old_coded = <<>> /\ new_coded = <<>>
    /\ coded_diffs = <<>> /\ swapped_diffs = <<>>
ViewsIdle == views = NoRecord /\ mutations = 0
SectionsIdle ==
    /\ sources_in = <<>> /\ reference_in = NoString /\ aliases_in = <<>>
    /\ normalizer = NoRecord /\ section_list = <<>>
MergeIdle == exports_in = <<>> /\ masters = <<>> /\ merged_master = <<>>
MasterIdle ==
    /\ master_qs = <<>> /\ master_dict = NoRecord /\ master_file = <<>>
    /\ master_edit = NoRecord /\ master_loaded = <<>> /\ master_rebuilt = NoRecord
    /\ master_again = <<>>
PureIdle ==
    given = NoRecord /\ first_call = NoRecord /\ second_call = NoRecord /\ heap = <<>>
ExportIdle == master_given = FALSE /\ exported = NoRecord
StoreIdle == MergeIdle /\ MasterIdle /\ PureIdle /\ ExportIdle
LaterIdle == ItemsIdle /\ ViewsIdle /\ SectionsIdle /\ StoreIdle

InitNormalize ==
    /\ pc = "start"
    /\ code \in CodeInputs
    /\ normalized = NoString
    /\ renormalized = NoString
    /\ threshold = DEFAULT_SIMILARITY_THRESHOLD
    /\ TextsIdle /\ QuestionIdle /\ SurveyIdle /\ LaterIdle

\* Question.normalized_code on the raw code
NormalizeCode ==
    /\ pc = "start"
    /\ normalized' = normalize_code(code)
    /\ pc' = "normalized"
    /\ UNCHANGED <<code, renormalized, threshold, textVars, questionVars, surveyVars, laterVars>>

\* normalize_code called on the normalized code
RenormalizeCode ==
    /\ pc = "normalized"
    /\ renormalized' = normalize_code(normalized)
    /\ pc' = "done"
    /\ UNCHANGED <<code, normalized, threshold, textVars, questionVars, surveyVars, laterVars>>

NextNormalize == NormalizeCode \/ RenormalizeCode

SpecNormalize == InitNormalize /\ [][NextNormalize]_vars

\* C1: normalize_code is idempotent: normalizing a normalized code again
\* returns it unchanged, for every code.
C1_NormalizeIdempotent ==
    pc = "done" => renormalized = normalized

\* The typo table as the claims describe it: an exact full-string match.
TypoAlias(s) == IF s = IPRErgenisse THEN IPRErgebnisse ELSE s

\* The prefix rule as the claims describe it.
HasEditionPrefix(c) ==
    Len(c) >= 2 /\ c[1] \in {"F", "f", "I", "i"} /\ IsUpper(c[2])

\* C2 as stated: normalize_code(code) = alias(s), s being the code without
\* its first character when that is one of F, f, I, i and the second
\* character exists and is uppercase, and the code itself in every other
\* case.
C2_StripsEveryPrefixedCode ==
    pc # "start" =>
        normalized = TypoAlias(IF HasEditionPrefix(code) THEN Tail(code) ELSE code)

\* C2 as amended: as stated, except that a code starting with "IPR" is
\* never stripped (only the typo table is applied to it).
C2_StripsPrefixUnlessIPR ==
    pc # "start" =>
        normalized = TypoAlias(IF HasEditionPrefix(code) /\ ~StartsWith(code, <<"I","P","R">>)
                               THEN Tail(code) ELSE code)

C2_Witness ==
    /\ pc = "normalized"
    /\ HasEditionPrefix(code)
    /\ ~StartsWith(code, <<"I","P","R">>)
    /\ normalized = Tail(code)

-----------------------------------------------------------------------------
(* compare_texts applied to two text lists and a threshold.                 *)

Languages == { <<"d","e">>, <<"D","E">>, <<"e","n">> }

ListTexts == { <<"a","b">>, <<"a","a">> }

TextAlphabet == {"a", "b"}

Thresholds ==
    { [num |-> 0, den |-> 1], [num |-> 1, den |-> 2],
      DEFAULT_SIMILARITY_THRESHOLD, [num |-> 3, den |-> 2] }

LocalizedText(language, text) == [language |-> language, text |-> text]

SeqsUpTo(S, n) == UNION {[1..k -> S] : k \in 0..n}

\* multilingual lists with repeated and differently cased language codes
TextLists ==
    SeqsUpTo({LocalizedText(l, t) : l \in Languages, t \in ListTexts}, MaxTexts)

\* one-language lists over every short text
SingleTextLists ==
    {<<LocalizedText(<<"e","n">>, t)>> : t \in StringsUpTo(TextAlphabet, MaxTextLen)}

InitTexts ==
    /\ pc = "start"
    /\ \/ old_texts \in TextLists /\ new_texts \in TextLists
       \/ old_texts \in SingleTextLists /\ new_texts \in SingleTextLists
    /\ threshold \in Thresholds
    /\ text_diffs = <<>>
    /\ NormIdle /\ QuestionIdle /\ SurveyIdle /\ LaterIdle

CompareTexts ==
    /\ pc = "start"
    /\ text_diffs' = compare_texts(old_texts, new_texts, threshold)
    /\ pc' = "done"
    /\ UNCHANGED <<old_texts, new_texts, threshold, normVars, questionVars, surveyVars, laterVars>>

NextTexts == CompareTexts

SpecTexts == InitTexts /\ [][NextTexts]_vars

\* the languages of a text list, compared ignoring case
LanguagesOf(texts) == {Lower(texts[i].language) : i \in 1..Len(texts)}

\* C8: compare_texts returns one TextDiff per language of the
\* case-insensitive union, sorted by lower-cased language code; a language
\* only in new is "added" (similarity 0.0, empty old_text), one only in old
\* is "removed" (similarity 0.0, empty new_text), one in both gets a
\* similarity-classified status.
C8_OneDiffPerLanguage ==
    pc = "done" =>
        LET inOld == LanguagesOf(old_texts)
            inNew == LanguagesOf(new_texts)
        IN  /\ Len(text_diffs) = Cardinality(inOld \cup inNew)
            /\ {text_diffs[i].language : i \in 1..Len(text_diffs)} = inOld \cup inNew
            /\ \A i, j \in 1..Len(text_diffs) :
                   i < j => StrLess(text_diffs[i].language, text_diffs[j].language)
            /\ \A i \in 1..Len(text_diffs) :
                   LET d == text_diffs[i]
                   IN  /\ d.language \in inNew \ inOld =>
                            d.status = "added" /\ d.similarity = FloatZero /\ d.old_text = <<>>
                       /\ d.language \in inOld \ inNew =>
                            d.status = "removed" /\ d.similarity = FloatZero /\ d.new_text = <<>>
                       /\ d.language \in inOld \cap inNew =>
                            d.status \in {"exact", "similar", "different"}

C8_Witness ==
    /\ pc = "done"
    /\ \E i, j \in 1..Len(text_diffs) :
           text_diffs[i].status = "added" /\ text_diffs[j].status \in {"similar", "different"}
    /\ \E i \in 1..Len(old_texts), j \in 1..Len(new_texts) :
           /\ old_texts[i].language # new_texts[j].language
           /\ Lower(old_texts[i].language) = Lower(new_texts[j].language)

\* the text of the first entry of texts whose language is lang ignoring case
FirstTextFor(texts, lang) ==
    texts[CHOOSE i \in 1..Len(texts) :
            /\ Lower(texts[i].language) = lang
            /\ \A k \in 1..(i - 1) : Lower(texts[k].language) # lang].text

\* C9: when a text list holds several entries whose language codes are
\* equal ignoring case, the first such entry's text is the one compared.
C9_FirstOccurrenceWins ==
    pc = "done" =>
        \A i \in 1..Len(text_diffs) :
            LET d == text_diffs[i]
            IN  /\ d.language \in LanguagesOf(old_texts) =>
                     d.old_text = FirstTextFor(old_texts, d.language)
                /\ d.language \in LanguagesOf(new_texts) =>
                     d.new_text = FirstTextFor(new_texts, d.language)

\* C10 as stated: for a language on both sides and any threshold, the
\* status is "exact" exactly when the similarity is 1.0, which is exactly
\* when the texts are equal; "similar" when threshold <= similarity < 1.0;
\* "different" when similarity < threshold.
C10_StatusBySimilarity ==
    pc = "done" =>
        \A i \in 1..Len(text_diffs) :
            LET d == text_diffs[i]
                s == d.similarity
            IN  d.status \notin {"added", "removed"} =>
                  /\ d.status = "exact" <=> s.num = s.den
                  /\ s.num = s.den <=> d.old_text = d.new_text
                  /\ (threshold.num * s.den <= s.num * threshold.den /\ s.num < s.den)
                        => d.status = "similar"
                  /\ s.num * threshold.den < threshold.num * s.den => d.status = "different"

\* C10 as amended: as stated, with "different" when the similarity is below
\* the threshold and below 1.0 (equal texts are "exact" under any
\* threshold, also one above 1.0).
C10_StatusBySimilarityBelowOne ==
    pc = "done" =>
        \A i \in 1..Len(text_diffs) :
            LET d == text_diffs[i]
                s == d.similarity
            IN  d.status \notin {"added", "removed"} =>
                  /\ d.status = "exact" <=> s.num = s.den
                  /\ s.num = s.den <=> d.old_text = d.new_text
                  /\ (threshold.num * s.den <= s.num * threshold.den /\ s.num < s.den)
                        => d.status = "similar"
                  /\ (s.num * threshold.den < threshold.num * s.den /\ s.num < s.den)
                        => d.status = "different"

C10_Witness ==
    /\ pc = "done"
    /\ Len(text_diffs) = 1
    /\ text_diffs[1].status = "similar"
    /\ text_diffs[1].similarity.num * threshold.den = threshold.num * text_diffs[1].similarity.den
    /\ text_diffs[1].old_text # text_diffs[1].new_text

-----------------------------------------------------------------------------
(* compare_questions applied to two questions and a threshold.              *)

T_ab == <<LocalizedText(<<"e","n">>, <<"a","b">>)>>
T_aa == <<LocalizedText(<<"e","n">>, <<"a","a">>)>>

Item1 == CodedItem(<<"1">>, T_ab)
Item1Reworded == CodedItem(<<"1">>, T_aa)
Item2 == CodedItem(<<"2">>, T_ab)

ItemLists == SeqsUpTo({Item1, Item1Reworded, Item2}, MaxItems)

ColumnGroupLists ==
    { <<>>,
      <<MatrixColumnGroup(<<Item1>>)>>,
      <<MatrixColumnGroup(<<Item1>>), MatrixColumnGroup(<<Item2>>)>> }

\* Questions as the parser builds them: a Matrix carries rows and column
\* groups and no choices, every other type carries choices only.
QuestionPool ==
    {Question(<<"Q","1">>, "SingleChoice", t, c, <<>>, <<>>) :
        t \in {T_ab, T_aa}, c \in ItemLists}
    \cup
    {Question(<<"Q","1">>, "Matrix", t, <<>>, r, g) :
        t \in {T_ab, T_aa}, r \in ItemLists, g \in ColumnGroupLists}

InitQuestions ==
    /\ pc = "start"
    /\ old_question \in QuestionPool
    /\ new_question \in QuestionPool
    /\ threshold \in {DEFAULT_SIMILARITY_THRESHOLD, [num |-> 1, den |-> 2]}
    /\ question_diff = NoRecord
    /\ NormIdle /\ TextsIdle /\ SurveyIdle /\ LaterIdle

CompareQuestions ==
    /\ pc = "start"
    /\ question_diff' = compare_questions(old_question, new_question, threshold)
    /\ pc' = "done"
    /\ UNCHANGED <<old_question, new_question, threshold, normVars, textVars, surveyVars, laterVars>>

NextQuestions == CompareQuestions

SpecQuestions == InitQuestions /\ [][NextQuestions]_vars

ItemDiffsOf(d) == d.choice_diffs \o d.matrix_row_diffs \o d.matrix_column_diffs

HasStructureChange(d) ==
    \E k \in 1..Len(ItemDiffsOf(d)) : ItemDiffsOf(d)[k].status \in {"added", "removed"}

HasTextChange(d) ==
    \/ \E k \in 1..Len(d.text_diffs) : d.text_diffs[k].status # "exact"
    \/ \E k \in 1..Len(ItemDiffsOf(d)) : ItemDiffsOf(d)[k].status = "text_changed"

\* C6: the status of compare_questions is "structure_changed" exactly when
\* some choice, row or column diff is added or removed, whatever the texts;
\* otherwise "text_changed" exactly when some top-level TextDiff is not
\* "exact" or some coded-item diff is "text_changed"; otherwise "identical".
C6_StatusPrecedence ==
    pc = "done" =>
        /\ question_diff.status = "structure_changed" <=> HasStructureChange(question_diff)
        /\ question_diff.status = "text_changed" <=>
               ~HasStructureChange(question_diff) /\ HasTextChange(question_diff)
        /\ question_diff.status = "identical" <=>
               ~HasStructureChange(question_diff) /\ ~HasTextChange(question_diff)

C6_Witness ==
    /\ pc = "done"
    /\ question_diff.status = "structure_changed"
    /\ HasTextChange(question_diff)
    /\ old_question.element_type = new_question.element_type

\* C7: in every QuestionDiff of compare_questions, choice_diffs is empty if
\* either question is a Matrix, and otherwise both matrix diff lists are
\* empty; choice diffs and matrix diffs are never both non-empty.
C7_ChoiceOrMatrixDiffs ==
    pc = "done" =>
        /\ (old_question.element_type = "Matrix" \/ new_question.element_type = "Matrix")
              => question_diff.choice_diffs = <<>>
        /\ (old_question.element_type # "Matrix" /\ new_question.element_type # "Matrix")
              => question_diff.matrix_row_diffs = <<>> /\ question_diff.matrix_column_diffs = <<>>
        /\ ~(/\ question_diff.choice_diffs # <<>>
             /\ question_diff.matrix_row_diffs \o question_diff.matrix_column_diffs # <<>>)

C7_Witness ==
    /\ pc = "done"
    /\ old_question.element_type = "Matrix"
    /\ new_question.element_type = "SingleChoice"
    /\ new_question.choices # <<>>
    /\ question_diff.matrix_row_diffs # <<>>
    /\ question_diff.choice_diffs = <<>>

-----------------------------------------------------------------------------
(* compare_surveys applied to two question lists.                           *)

ChoiceBody(c, texts, choices) == Question(c, "SingleChoice", texts, choices, <<>>, <<>>)

MatrixBody(c) ==
    Question(c, "Matrix", T_ab, <<>>, <<Item1>>, <<MatrixColumnGroup(<<Item1Reworded>>)>>)

\* Questions of a "Final" (F/f) and an "Impact" (I/i) edition
SurveyPool ==
    { ChoiceBody(<<"F","X">>, T_ab, <<Item1>>),
      ChoiceBody(<<"I","X">>, T_aa, <<Item1>>),
      ChoiceBody(<<"f","X">>, T_ab, <<Item1, Item2>>),
      MatrixBody(<<"i","X">>),
      ChoiceBody(<<"F","P","R">>, T_ab, <<Item1>>),
      MatrixBody(<<"I","P","R">>) }

InitSurveys ==
    /\ pc = "start"
    /\ questions_a \in SeqsUpTo(SurveyPool, MaxQuestions)
    /\ questions_b \in SeqsUpTo(SurveyPool, MaxQuestions)
    /\ threshold = DEFAULT_SIMILARITY_THRESHOLD
    /\ question_diffs = <<>>
    /\ NormIdle /\ TextsIdle /\ QuestionIdle /\ LaterIdle

CompareSurveys ==
    /\ pc = "start"
    /\ question_diffs' = compare_surveys(questions_a, questions_b, threshold)
    /\ pc' = "done"
    /\ UNCHANGED <<questions_a, questions_b, threshold, normVars, textVars, questionVars, laterVars>>

NextSurveys == CompareSurveys

SpecSurveys == InitSurveys /\ [][NextSurveys]_vars

\* qa is coded "F"+B or "f"+B and qb "I"+B or "i"+B, B starting uppercase
EditionPair(qa, qb) ==
    /\ Len(qa.code) >= 2 /\ Len(qb.code) >= 2
    /\ qa.code[1] \in {"F", "f"}
    /\ qb.code[1] \in {"I", "i"}
    /\ Tail(qa.code) = Tail(qb.code)
    /\ IsUpper(qa.code[2])

\* qa and qb meet in one diff, and neither yields an added or removed one
MatchedInOneDiff(qa, qb) ==
    /\ normalize_code(qa.code) = normalize_code(qb.code)
    /\ Cardinality({n \in 1..Len(question_diffs) :
                       question_diffs[n].code = normalize_code(qa.code)}) = 1
    /\ \A n \in 1..Len(question_diffs) :
           question_diffs[n].code \in {normalize_code(qa.code), normalize_code(qb.code)}
              => question_diffs[n].status \notin {"added", "removed"}

\* C3 as stated: for every base code B starting with an uppercase letter, a
\* question "F"+B or "f"+B of survey A and a question "I"+B or "i"+B of
\* survey B are matched into one diff keyed by the same normalized code,
\* and neither produces an added or removed entry.
C3_EditionsMatch ==
    pc = "done" =>
        \A i \in 1..Len(questions_a), j \in 1..Len(questions_b) :
            EditionPair(questions_a[i], questions_b[j])
               => MatchedInOneDiff(questions_a[i], questions_b[j])

\* C3 as amended: as stated, for every base code B that starts with an
\* uppercase letter and does not start with "PR" (the code "I"+B then
\* starts with "IPR", which normalize_code never strips).
C3_EditionsMatchUnlessIPR ==
    pc = "done" =>
        \A i \in 1..Len(questions_a), j \in 1..Len(questions_b) :
            ( /\ EditionPair(questions_a[i], questions_b[j])
              /\ ~StartsWith(Tail(questions_a[i].code), <<"P","R">>) )
               => MatchedInOneDiff(questions_a[i], questions_b[j])

C3_Witness ==
    /\ pc = "done"
    /\ \E i \in 1..Len(questions_a), j \in 1..Len(questions_b) :
           /\ EditionPair(questions_a[i], questions_b[j])
           /\ questions_a[i].code[1] = "f"
           /\ questions_b[j].code[1] = "I"
           /\ MatchedInOneDiff(questions_a[i], questions_b[j])
    /\ Len(question_diffs) = 1

NormalizedCodes(questions) ==
    [i \in 1..Len(questions) |-> normalize_code(questions[i].code)]

FirstPosition(seq, x) ==
    CHOOSE i \in 1..Len(seq) : seq[i] = x /\ \A k \in 1..(i - 1) : seq[k] # x

\* C4: compare_surveys returns exactly one QuestionDiff per distinct
\* normalized code of both sides, ordered by first appearance (side A, then
\* the B-only codes), each diff carrying that normalized code, so that the
\* codes of the result are pairwise distinct.
C4_OneDiffPerNormalizedCode ==
    pc = "done" =>
        LET all == NormalizedCodes(questions_a) \o NormalizedCodes(questions_b)
            distinct == {all[i] : i \in 1..Len(all)}
        IN  /\ Len(question_diffs) = Cardinality(distinct)
            /\ {question_diffs[n].code : n \in 1..Len(question_diffs)} = distinct
            /\ \A m, n \in 1..Len(question_diffs) :
                   m < n => /\ question_diffs[m].code # question_diffs[n].code
                            /\ FirstPosition(all, question_diffs[m].code)
                                 < FirstPosition(all, question_diffs[n].code)

C4_Witness ==
    /\ pc = "done"
    /\ Len(question_diffs) = 3
    /\ question_diffs[1].status = "removed"
    /\ question_diffs[2].status \notin {"added", "removed"}
    /\ question_diffs[3].status = "added"
    /\ questions_a[2].code # question_diffs[2].code

LastWithCode(questions, c) ==
    questions[CHOOSE i \in 1..Len(questions) :
                /\ normalize_code(questions[i].code) = c
                /\ \A k \in (i + 1)..Len(questions) : normalize_code(questions[k].code) # c]

CodeIn(questions, c) == \E i \in 1..Len(questions) : normalize_code(questions[i].code) = c

\* C5: a normalized code only in B is "added" with B's element_type, one
\* only in A is "removed", and one on both sides gets the compare_questions
\* result (never added or removed) of the last question carrying that
\* normalized code on each side.
C5_AddedRemovedMatched ==
    pc = "done" =>
        \A n \in 1..Len(question_diffs) :
            LET d == question_diffs[n]
                inA == CodeIn(questions_a, d.code)
                inB == CodeIn(questions_b, d.code)
            IN  /\ (~inA /\ inB) =>
                      /\ d.status = "added"
                      /\ d.element_type = LastWithCode(questions_b, d.code).element_type
                /\ (inA /\ ~inB) => d.status = "removed"
                /\ (inA /\ inB) =>
                      /\ d.status \notin {"added", "removed"}
                      /\ d = [compare_questions(LastWithCode(questions_a, d.code),
                                                LastWithCode(questions_b, d.code),
                                                threshold) EXCEPT !.code = d.code]

C5_Witness ==
    /\ pc = "done"
    /\ Len(questions_a) = 2
    /\ normalize_code(questions_a[1].code) = normalize_code(questions_a[2].code)
    /\ \E j \in 1..Len(questions_b) :
          /\ normalize_code(questions_b[j].code) = normalize_code(questions_a[1].code)
          /\ compare_questions(questions_a[1], questions_b[j], threshold).status = "identical"
    /\ Len(question_diffs) = 1
    /\ question_diffs[1].status = "structure_changed"

-----------------------------------------------------------------------------
(* The coded-item differ called on two item lists, and on the same lists    *)
(* with the arguments swapped.                                              *)

T_ab_de == <<LocalizedText(<<"e","n">>, <<"a","b">>), LocalizedText(<<"d","e">>, <<"a","b">>)>>

ItemEmptyCode == CodedItem(<<>>, T_ab)
Item2Bilingual == CodedItem(<<"2">>, T_ab_de)

CodedItemPool == {Item1, Item1Reworded, Item2, Item2Bilingual, ItemEmptyCode}

Differs == {"choices", "matrix_rows", "matrix_columns"}

\* column groups holding the columns, one group per column
ColumnGroupsOf(items) == [i \in 1..Len(items) |-> MatrixColumnGroup(<<items[i]>>)]

\* the public differ named by which
RunDiffer(which, old, new, th) ==
    IF which = "choices" THEN compare_choices(old, new, th)
    ELSE IF which = "matrix_rows" THEN compare_matrix_rows(old, new, th)
    ELSE compare_matrix_columns(ColumnGroupsOf(old), ColumnGroupsOf(new), th)

InitItems ==
    /\ pc = "start"
    /\ differ \in Differs
    /\ old_coded \in SeqsUpTo(CodedItemPool, MaxItems)
    /\ new_coded \in SeqsUpTo(CodedItemPool, MaxItems)
    /\ threshold \in {DEFAULT_SIMILARITY_THRESHOLD, [num |-> 1, den |-> 2]}
    /\ coded_diffs = <<>>
    /\ swapped_diffs = <<>>
    /\ NormIdle /\ TextsIdle /\ QuestionIdle /\ SurveyIdle /\ ViewsIdle /\ SectionsIdle /\ StoreIdle

CompareItems ==
    /\ pc = "start"
    /\ coded_diffs' = RunDiffer(differ, old_coded, new_coded, threshold)
    /\ pc' = "compared"
    /\ UNCHANGED <<differ, old_coded, new_coded, swapped_diffs, threshold, normVars, storeVars,
                   textVars, questionVars, surveyVars, viewVars, sectionVars>>

CompareItemsSwapped ==
    /\ pc = "compared"
    /\ swapped_diffs' = RunDiffer(differ, new_coded, old_coded, threshold)
    /\ pc' = "done"
    /\ UNCHANGED <<differ, old_coded, new_coded, coded_diffs, threshold, normVars, storeVars,
                   textVars, questionVars, surveyVars, viewVars, sectionVars>>

NextItems == CompareItems \/ CompareItemsSwapped

SpecItems == InitItems /\ [][NextItems]_vars

CodesOfItems(items) == {items[i].code : i \in 1..Len(items)}

\* position of the first item carrying code c in old followed by new
FirstSeenAt(old, new, c) ==
    CHOOSE i \in 1..(Len(old) + Len(new)) :
        /\ (old \o new)[i].code = c
        /\ \A k \in 1..(i - 1) : (old \o new)[k].code # c

\* C11: the differ returns exactly one ChoiceDiff per distinct code of old
\* and new together, ordered by the first appearance of the code in old
\* followed by new (old codes first, then the new-only codes), also with a
\* repeated or empty code.
C11_OneDiffPerCodeFirstSeen ==
    pc # "start" =>
        /\ {coded_diffs[n].code : n \in 1..Len(coded_diffs)}
               = CodesOfItems(old_coded) \cup CodesOfItems(new_coded)
        /\ Len(coded_diffs) = Cardinality(CodesOfItems(old_coded) \cup CodesOfItems(new_coded))
        /\ \A m, n \in 1..Len(coded_diffs) :
               m < n => FirstSeenAt(old_coded, new_coded, coded_diffs[m].code)
                          < FirstSeenAt(old_coded, new_coded, coded_diffs[n].code)

C11_Witness ==
    /\ pc = "compared"
    /\ Len(old_coded) = 2 /\ old_coded[1].code = old_coded[2].code
    /\ Len(new_coded) = 2 /\ new_coded[1].code = <<>> /\ new_coded[2].code = old_coded[1].code
    /\ Len(coded_diffs) = 2
    /\ coded_diffs[2].code = <<>>

\* the item a dict comprehension keeps for code c: the last one carrying it
LastItemWithCode(items, c) ==
    items[CHOOSE i \in 1..Len(items) :
            /\ items[i].code = c
            /\ \A k \in (i + 1)..Len(items) : items[k].code # c]

\* C12: a code only in new is "added" and a code only in old "removed",
\* both without text_diffs; a code in both carries the complete compare_texts
\* list of its items and is "text_changed" exactly when one of these
\* TextDiffs is not "exact", and "unchanged" otherwise.
C12_ItemStatus ==
    pc # "start" =>
        \A n \in 1..Len(coded_diffs) :
            LET d == coded_diffs[n]
                inOld == d.code \in CodesOfItems(old_coded)
                inNew == d.code \in CodesOfItems(new_coded)
            IN  /\ (~inOld /\ inNew) => d.status = "added" /\ d.text_diffs = <<>>
                /\ (inOld /\ ~inNew) => d.status = "removed" /\ d.text_diffs = <<>>
                /\ (inOld /\ inNew) =>
                      /\ d.text_diffs = compare_texts(LastItemWithCode(old_coded, d.code).texts,
                                                      LastItemWithCode(new_coded, d.code).texts,
                                                      threshold)
                      /\ d.status \in {"text_changed", "unchanged"}
                      /\ d.status = "text_changed" <=>
                             \E k \in 1..Len(d.text_diffs) : d.text_diffs[k].status # "exact"

C12_Witness ==
    /\ pc = "compared"
    /\ \E n \in 1..Len(coded_diffs) :
          /\ coded_diffs[n].status = "text_changed"
          /\ Len(coded_diffs[n].text_diffs) = 2
          /\ coded_diffs[n].text_diffs[1].status = "removed"
          /\ coded_diffs[n].text_diffs[2].status = "exact"
    /\ \E n \in 1..Len(coded_diffs) :
          /\ coded_diffs[n].status = "text_changed"
          /\ Len(coded_diffs[n].text_diffs) = 1
          /\ coded_diffs[n].text_diffs[1].status = "similar"

StatusOf(diffs, c) == diffs[CHOOSE n \in 1..Len(diffs) : diffs[n].code = c].status

\* C13: swapping the arguments gives diffs over the same set of codes, with
\* every "added" turned into "removed", every "removed" into "added" and
\* every "unchanged" left "unchanged".
C13_SwapSymmetry ==
    pc = "done" =>
        /\ {swapped_diffs[n].code : n \in 1..Len(swapped_diffs)}
               = {coded_diffs[n].code : n \in 1..Len(coded_diffs)}
        /\ \A n \in 1..Len(coded_diffs) :
               LET d == coded_diffs[n]
               IN  /\ d.status = "added" => StatusOf(swapped_diffs, d.code) = "removed"
                   /\ d.status = "removed" => StatusOf(swapped_diffs, d.code) = "added"
                   /\ d.status = "unchanged" => StatusOf(swapped_diffs, d.code) = "unchanged"

C13_Witness ==
    /\ pc = "done"
    /\ Len(coded_diffs) = 3
    /\ coded_diffs[1].status = "unchanged"
    /\ coded_diffs[2].status = "removed"
    /\ coded_diffs[3].status = "added"
    /\ swapped_diffs[2].code = coded_diffs[3].code
    /\ swapped_diffs[2].status = "removed"

-----------------------------------------------------------------------------
(* A ComparisonResult built by compare_surveys, its question_diffs list     *)
(* changed by the caller, and its views read.                               *)

ResultPool ==
    { ChoiceBody(<<"F","X">>, T_ab, <<Item1>>),
      ChoiceBody(<<"I","X">>, T_aa, <<Item1>>),
      ChoiceBody(<<"F","P","R">>, T_ab, <<Item1>>) }

\* statuses a caller may write into a diff
WrittenStatuses == {"added", "removed", "identical"}

\* a diff a caller appends to question_diffs
AppendedDiff(status) == QuestionDiff(<<"Z">>, "SingleChoice", status, <<>>, <<>>, <<>>, <<>>)

InitResult ==
    /\ pc = "start"
    /\ questions_a \in SeqsUpTo(ResultPool, MaxQuestions)
    /\ questions_b \in SeqsUpTo(ResultPool, MaxQuestions)
    /\ threshold = DEFAULT_SIMILARITY_THRESHOLD
    /\ question_diffs = <<>>
    /\ NormIdle /\ TextsIdle /\ QuestionIdle /\ LaterIdle

\* result.question_diffs.append(diff)
AppendDiff ==
    /\ pc \in {"done", "read"}
    /\ mutations < MaxMutations
    /\ \E status \in WrittenStatuses :
          question_diffs' = Append(question_diffs, AppendedDiff(status))
    /\ mutations' = mutations + 1
    /\ pc' = "done"
    /\ UNCHANGED <<questions_a, questions_b, threshold, views, normVars, storeVars, textVars,
                   questionVars, itemVars, sectionVars>>

\* result.question_diffs.pop()
PopDiff ==
    /\ pc \in {"done", "read"}
    /\ mutations < MaxMutations
    /\ question_diffs # <<>>
    /\ question_diffs' = SubSeq(question_diffs, 1, Len(question_diffs) - 1)
    /\ mutations' = mutations + 1
    /\ pc' = "done"
    /\ UNCHANGED <<questions_a, questions_b, threshold, views, normVars, storeVars, textVars,
                   questionVars, itemVars, sectionVars>>

\* result.question_diffs[0].status = status
SetStatus ==
    /\ pc \in {"done", "read"}
    /\ mutations < MaxMutations
    /\ question_diffs # <<>>
    /\ \E status \in WrittenStatuses :
          question_diffs' = [question_diffs EXCEPT ![1].status = status]
    /\ mutations' = mutations + 1
    /\ pc' = "done"
    /\ UNCHANGED <<questions_a, questions_b, threshold, views, normVars, storeVars, textVars,
                   questionVars, itemVars, sectionVars>>

\* result.matched, result.added, result.removed
ReadViews ==
    /\ pc = "done"
    /\ views' = [matched |-> matched(question_diffs),
                 added |-> added(question_diffs),
                 removed |-> removed(question_diffs)]
    /\ pc' = "read"
    /\ UNCHANGED <<threshold, mutations, normVars, storeVars, textVars, questionVars, surveyVars,
                   itemVars, sectionVars>>

NextResult == CompareSurveys \/ AppendDiff \/ PopDiff \/ SetStatus \/ ReadViews

SpecResult == InitResult /\ [][NextResult]_vars

\* the positions of the diffs whose status is in / is not in a set
PositionsIn(diffs, statuses) == {i \in 1..Len(diffs) : diffs[i].status \in statuses}
PositionsNotIn(diffs, statuses) == {i \in 1..Len(diffs) : diffs[i].status \notin statuses}

\* the k-th smallest element of a set of positions
KthOf(positions, k) ==
    CHOOSE i \in positions : Cardinality({j \in positions : j <= i}) = k

\* view lists exactly the diffs at the positions, in their order
IsSubListAt(view, diffs, positions) ==
    /\ Len(view) = Cardinality(positions)
    /\ \A k \in 1..Len(view) : view[k] = diffs[KthOf(positions, k)]

\* C14: when the views are read, matched, added and removed are the
\* order-preserving sub-lists of the current question_diffs at pairwise
\* disjoint positions covering the whole list: added holds the "added"
\* diffs, removed the "removed" ones, matched every other diff; their
\* lengths sum to the length of question_diffs.
C14_ViewsPartitionDiffs ==
    pc = "read" =>
        /\ IsSubListAt(views.added, question_diffs, PositionsIn(question_diffs, {"added"}))
        /\ IsSubListAt(views.removed, question_diffs, PositionsIn(question_diffs, {"removed"}))
        /\ IsSubListAt(views.matched, question_diffs,
                       PositionsNotIn(question_diffs, {"added", "removed"}))
        /\ Len(views.matched) + Len(views.added) + Len(views.removed) = Len(question_diffs)

C14_Witness ==
    /\ pc = "read"
    /\ mutations = 1
    /\ Len(question_diffs) = 3
    /\ question_diffs[3].code = <<"Z">>
    /\ Len(views.matched) = 1 /\ Len(views.added) = 1 /\ Len(views.removed) = 1
    /\ views.removed[1] = question_diffs[3]
    /\ views.added[1] = question_diffs[2]

-----------------------------------------------------------------------------
(* build_section_normalizer applied to a reference source and another       *)
(* source, given in either order, with an alias table.                      *)

Name6 == <<"a","b","c","d","e","f">>
Name7 == <<"A","b","c","d","e","f","g">>
Name8 == <<"a","b","c","d","e","f","g","h">>
NameSpaceX == <<" ","X">>
NameX == <<"X">>
NameY == <<"Y">>
NameZ == <<"Z">>

\* a question as the builder reads it
SectionQuestion(c, section_name) == [code |-> c, section_name |-> section_name]

QuestionsNamed(names) == {SectionQuestion(<<"Q">>, n) : n \in names}

RefSource == <<"r">>
OtherSource == <<"o">>

\* all_sources with the reference source first or last
SourceDicts(ref_questions, other_questions) ==
    { <<[key |-> RefSource, value |-> ref_questions],
        [key |-> OtherSource, value |-> other_questions]>>,
      <<[key |-> OtherSource, value |-> other_questions],
        [key |-> RefSource, value |-> ref_questions]>> }

\* alias tables keyed by a stripped name and a raw name, by a raw name only,
\* and one whose value is a near-duplicate of another section name
AliasTables ==
    { <<[key |-> NameX, value |-> NameY], [key |-> NameSpaceX, value |-> NameZ]>>,
      <<[key |-> NameSpaceX, value |-> NameZ]>>,
      <<[key |-> NameX, value |-> Name7]>> }

\* alias tables with a value that is itself a key, and with a value that
\* is not stripped
ChainedAliasTables ==
    { <<[key |-> NameX, value |-> NameY], [key |-> NameY, value |-> NameZ]>>,
      <<[key |-> NameY, value |-> NameSpaceX]>> }

\* the inputs of the builder: near-duplicate names without an alias table,
\* whitespace variants, a missing name and a plain name with an alias
\* table, and names that are keys and values of a chained alias table
SectionInputFamilies ==
    { [names |-> {Name6, Name7, Name8}, aliases |-> {<<>>}],
      [names |-> {NameSpaceX, NameX, Name6, None}, aliases |-> AliasTables],
      [names |-> {NameSpaceX, NameX, NameY}, aliases |-> ChainedAliasTables] }

InitSections ==
    /\ pc = "start"
    /\ \E family \in SectionInputFamilies :
          /\ \E ref_questions \in SeqsUpTo(QuestionsNamed(family.names), MaxQuestions) :
                \E other_questions \in SeqsUpTo(QuestionsNamed(family.names), MaxQuestions) :
                    sources_in \in SourceDicts(ref_questions, other_questions)
          /\ aliases_in \in family.aliases
    /\ reference_in = RefSource
    /\ normalizer = NoRecord
    /\ section_list = <<>>
    /\ threshold = DEFAULT_SIMILARITY_THRESHOLD
    /\ NormIdle /\ TextsIdle /\ QuestionIdle /\ SurveyIdle /\ ItemsIdle /\ ViewsIdle /\ StoreIdle

BuildNormalizer ==
    /\ pc = "start"
    /\ normalizer' = build_section_normalizer(sources_in, reference_in, aliases_in)
    /\ pc' = "built"
    /\ UNCHANGED <<sources_in, reference_in, aliases_in, section_list, threshold, normVars, storeVars,
                   textVars, questionVars, surveyVars, itemVars, viewVars>>

NextSections == BuildNormalizer

SpecSections == InitSections /\ [][NextSections]_vars

\* the raw section names the build saw
SeenRawNames ==
    UNION {{SectionNameOf(sources_in[i].value[k]) : k \in 1..Len(sources_in[i].value)} :
             i \in 1..Len(sources_in)}

\* the raw section names of the reference source
ReferenceRawNames ==
    UNION {{SectionNameOf(sources_in[i].value[k]) : k \in 1..Len(sources_in[i].value)} :
             i \in {j \in 1..Len(sources_in) : sources_in[j].key = reference_in}}

AliasValue(name) == aliases_in[CHOOSE i \in 1..Len(aliases_in) : aliases_in[i].key = name].value

IsAliasKey(name) == \E i \in 1..Len(aliases_in) : aliases_in[i].key = name

\* the canonical name of a raw name after the strip and alias phases
PostAlias(raw) ==
    IF IsAliasKey(_strip_section_name(raw)) THEN AliasValue(_strip_section_name(raw))
    ELSE IF IsAliasKey(raw) THEN AliasValue(raw)
    ELSE _strip_section_name(raw)

Similar(name_a, name_b) ==
    FloatGe(SectionSimilarity(name_a, name_b), SECTION_MERGE_THRESHOLD)

\* C15: any two distinct post-alias canonical names whose case-insensitive
\* similarity is >= 0.92 end up merged: the raw names that produced either
\* of them normalize to the same final name.
C15_SimilarNamesMerged ==
    pc = "built" =>
        \A raw_a, raw_b \in SeenRawNames :
            (PostAlias(raw_a) # PostAlias(raw_b) /\ Similar(PostAlias(raw_a), PostAlias(raw_b)))
                => normalize(normalizer, raw_a) = normalize(normalizer, raw_b)

\* C16: a canonical name that is not one of the reference source's and is
\* similar (>= 0.92) to a canonical name of the reference source does not
\* survive: its raw names normalize to a canonical name of the reference
\* source, wherever the reference source stands in all_sources.
C16_ReferenceNamePreferred ==
    pc = "built" =>
        \A raw \in SeenRawNames :
            ( /\ \A r \in ReferenceRawNames : PostAlias(r) # PostAlias(raw)
              /\ \E r \in ReferenceRawNames : Similar(PostAlias(r), PostAlias(raw)) )
                => /\ normalize(normalizer, raw) # PostAlias(raw)
                   /\ \E r \in ReferenceRawNames : normalize(normalizer, raw) = PostAlias(r)

\* the post-alias canonical names of the raw names seen
PostAliasNames == {PostAlias(raw) : raw \in SeenRawNames}

\* C17 as stated: normalize(raw) is the value aliased to the stripped form
\* of raw when that is an alias key, and otherwise the value aliased to raw
\* itself when raw is an alias key.
C17_AliasValueReturned ==
    pc = "built" =>
        \A raw \in SeenRawNames :
            /\ IsAliasKey(_strip_section_name(raw)) =>
                   normalize(normalizer, raw) = AliasValue(_strip_section_name(raw))
            /\ (~IsAliasKey(_strip_section_name(raw)) /\ IsAliasKey(raw)) =>
                   normalize(normalizer, raw) = AliasValue(raw)

\* C17 amended: with v the value aliased to the stripped form of raw (or,
\* that not being a key, to raw itself), normalize(raw) is v when no other
\* post-alias canonical name is similar (>= 0.92) to v, and is otherwise v
\* or the other canonical name, similar to v, that the fuzzy merge
\* redirected v to.
C17_AliasValueOrMergeTarget ==
    pc = "built" =>
        \A raw \in SeenRawNames :
            (IsAliasKey(_strip_section_name(raw)) \/ IsAliasKey(raw)) =>
                /\ \/ normalize(normalizer, raw) = PostAlias(raw)
                   \/ /\ normalize(normalizer, raw) \in PostAliasNames
                      /\ Similar(normalize(normalizer, raw), PostAlias(raw))
                /\ (\A other \in PostAliasNames \ {PostAlias(raw)} :
                        ~Similar(other, PostAlias(raw)) /\ ~Similar(PostAlias(raw), other))
                      => normalize(normalizer, raw) = PostAlias(raw)

\* a raw name whose stripped form is an alias key, its alias value having
\* been redirected by the fuzzy merge to the reference source's name
C17_Witness ==
    /\ pc = "built"
    /\ NameSpaceX \in SeenRawNames
    /\ ~IsAliasKey(NameSpaceX) /\ IsAliasKey(NameX) /\ AliasValue(NameX) = Name7
    /\ normalize(normalizer, NameSpaceX) = Name6

\* C20: the stripped form of every raw name seen is its canonical name or
\* one of the aliases of its canonical name; an alias list holds neither its
\* own canonical name nor a repeated entry; aliases_for is empty for a
\* canonical name nothing collapsed into; all_aliases lists only canonical
\* names with at least one variant.
C20_AliasLists ==
    pc = "built" =>
        /\ \A raw \in SeenRawNames :
               \/ _strip_section_name(raw) = normalize(normalizer, raw)
               \/ InSeq(_strip_section_name(raw),
                        aliases_for(normalizer, normalize(normalizer, raw)))
        /\ \A raw \in SeenRawNames :
               LET canonical == normalize(normalizer, raw)
                   variants == aliases_for(normalizer, canonical)
               IN  /\ ~InSeq(canonical, variants)
                   /\ \A m, n \in 1..Len(variants) : m # n => variants[m] # variants[n]
                   /\ (\A other \in SeenRawNames :
                          normalize(normalizer, other) = canonical
                              => _strip_section_name(other) = canonical)
                         => variants = <<>>
        /\ \A n \in 1..Len(all_aliases(normalizer)) :
               /\ all_aliases(normalizer)[n].value # <<>>
               /\ \E raw \in SeenRawNames :
                      normalize(normalizer, raw) = all_aliases(normalizer)[n].key

\* two raw names with one stripped form collapsed into an alias value, next
\* to a canonical name nothing collapsed into
C20_Witness ==
    /\ pc = "built"
    /\ {NameSpaceX, NameX, Name6} \subseteq SeenRawNames
    /\ aliases_for(normalizer, NameY) = <<NameX>>
    /\ aliases_for(normalizer, Name6) = <<>>
    /\ Len(all_aliases(normalizer)) = 1

\* the redirect table of phase 3 for the inputs of the build
MergeTable ==
    FuzzyMerge(FromKeys([i \in 1..Len(VisitedRawNames(RawNamesBySource(sources_in),
                                  _ordered_sources(RawNamesBySource(sources_in), reference_in)))
                            |-> PostAlias(VisitedRawNames(RawNamesBySource(sources_in),
                                  _ordered_sources(RawNamesBySource(sources_in), reference_in))[i])]),
               [i \in 1..Len(NamesOfSource(RawNamesBySource(sources_in), reference_in))
                   |-> PostAlias(NamesOfSource(RawNamesBySource(sources_in), reference_in)[i])])

\* C26: the name normalize returns for a raw name seen during build is no
\* key of the fuzzy-merge redirect table, and every raw name whose post-alias
\* name it is normalizes to it (it was not merged into another name)
C26_FinalTargetNotMerged ==
    pc = "built" =>
        LET table == MergeTable
        IN  \A raw \in SeenRawNames :
                /\ ~DictHas(table, normalize(normalizer, raw))
                /\ \A other \in SeenRawNames :
                      PostAlias(other) = normalize(normalizer, raw)
                          => normalize(normalizer, other) = normalize(normalizer, raw)

\* three names, the second similar to both others, the second merged into
\* the first and the third left alone
C26_Witness ==
    /\ pc = "built"
    /\ SeenRawNames = {Name6, Name7, Name8}
    /\ Similar(Name6, Name7) /\ Similar(Name7, Name8) /\ ~Similar(Name6, Name8)
    /\ normalize(normalizer, Name7) = Name6
    /\ DictHas(MergeTable, Name7)
    /\ normalize(normalizer, Name8) \in {Name6, Name8}

\* the alias table maps no name to a key of the table or to a name with
\* leading or trailing whitespace
AliasValuesFinal ==
    \A i \in 1..Len(aliases_in) :
        /\ ~IsAliasKey(aliases_in[i].value)
        /\ _strip_section_name(aliases_in[i].value) = aliases_in[i].value

\* C28 as stated: normalize(normalize(raw)) = normalize(raw) for every raw
\* name seen during build, whatever the alias table
C28_NormalizeIdempotent ==
    pc = "built" =>
        \A raw \in SeenRawNames :
            normalize(normalizer, normalize(normalizer, raw)) = normalize(normalizer, raw)

\* C28, amended: normalize(normalize(raw)) = normalize(raw) for every raw
\* name seen during build when no value of the alias table is a key of the
\* table or has leading or trailing whitespace
C28_IdempotentForFinalAliases ==
    (pc = "built" /\ AliasValuesFinal) =>
        \A raw \in SeenRawNames :
            normalize(normalizer, normalize(normalizer, raw)) = normalize(normalizer, raw)

\* a raw name changed by the strip phase, the alias table and the fuzzy
\* merge, its canonical name being a raw name of the build too
C28_Witness ==
    /\ pc = "built"
    /\ AliasValuesFinal
    /\ {NameSpaceX, Name6} \subseteq SeenRawNames
    /\ IsAliasKey(NameX) /\ AliasValue(NameX) = Name7
    /\ normalize(normalizer, NameSpaceX) = Name6
    /\ normalize(normalizer, Name6) = Name6

-----------------------------------------------------------------------------
(* SectionNormalizer.ordered_sections on the sources the normalizer was     *)
(* built from (export.py calls it so). The questions are those of the       *)
(* Question dataclass, which declares no section_index, and questions       *)
(* carrying the section_index that parse.py and the tests give them.        *)

CodeX == <<"X">>
CodeFX == <<"F", "X">>
CodeY == <<"Y">>

\* a Question with a section_index attribute
IndexedQuestion(c, section_name, section_index) ==
    [code |-> c, section_name |-> section_name, section_index |-> section_index]

\* one code under two prefixes and two near-duplicate section names, a
\* second code in two sections, and section_index values out of list order
IndexedQuestions ==
    { IndexedQuestion(CodeX, Name6, 1), IndexedQuestion(CodeFX, Name7, 0),
      IndexedQuestion(CodeY, Name7, 1), IndexedQuestion(CodeY, NameX, 0),
      IndexedQuestion(CodeFX, NameX, 1), IndexedQuestion(CodeY, None, 0) }

\* the questions the dataclass constructs
DataclassQuestions == {SectionQuestion(CodeX, Name6), SectionQuestion(CodeFX, Name7)}

OrderedInputFamilies == {IndexedQuestions, DataclassQuestions}

InitOrdered ==
    /\ pc = "start"
    /\ \E pool \in OrderedInputFamilies :
          \E ref_questions \in SeqsUpTo(pool, MaxQuestions) :
              \E other_questions \in SeqsUpTo(pool, MaxQuestions) :
                  sources_in \in SourceDicts(ref_questions, other_questions)
    /\ aliases_in = <<>>
    /\ reference_in = RefSource
    /\ normalizer = NoRecord
    /\ section_list = <<>>
    /\ threshold = DEFAULT_SIMILARITY_THRESHOLD
    /\ NormIdle /\ TextsIdle /\ QuestionIdle /\ SurveyIdle /\ ItemsIdle /\ ViewsIdle /\ StoreIdle

\* section_normalizer.ordered_sections(all_sources): the list, or the
\* AttributeError of q.section_index
OrderSections ==
    /\ pc = "built"
    /\ section_list' = IF OrderedSectionsRaises(sources_in) THEN <<>>
                       ELSE ordered_sections(normalizer, sources_in)
    /\ pc' = IF OrderedSectionsRaises(sources_in) THEN "raised" ELSE "ordered"
    /\ UNCHANGED <<sources_in, reference_in, aliases_in, normalizer, threshold, normVars, storeVars,
                   textVars, questionVars, surveyVars, itemVars, viewVars>>

NextOrdered == BuildNormalizer \/ OrderSections

SpecOrdered == InitOrdered /\ [][NextOrdered]_vars

\* the questions of all sources, the reference source's first, each source's
\* list as given
QuestionsReferenceFirst ==
    QuestionsOfSource(sources_in, RefSource) \o QuestionsOfSource(sources_in, OtherSource)

\* the normalized codes of all questions in all_sources
AllNormalizedCodes ==
    {normalize_code(QuestionsReferenceFirst[k].code) : k \in 1..Len(QuestionsReferenceFirst)}

\* the questions in the reference-first iteration, each source's questions
\* in ascending section_index, equal ones in list order
IsIterationOrder(visited, ref_questions, other_questions) ==
    /\ Len(visited) = Len(ref_questions) + Len(other_questions)
    /\ \E f \in [1..Len(ref_questions) -> 1..Len(ref_questions)] :
          /\ \A m, n \in 1..Len(ref_questions) : m # n => f[m] # f[n]
          /\ \A m \in 1..Len(ref_questions) : visited[m] = ref_questions[f[m]]
          /\ \A m, n \in 1..Len(ref_questions) :
                m < n => \/ ref_questions[f[m]].section_index < ref_questions[f[n]].section_index
                         \/ /\ ref_questions[f[m]].section_index = ref_questions[f[n]].section_index
                            /\ f[m] < f[n]
    /\ \E g \in [1..Len(other_questions) -> 1..Len(other_questions)] :
          /\ \A m, n \in 1..Len(other_questions) : m # n => g[m] # g[n]
          /\ \A m \in 1..Len(other_questions) :
                visited[Len(ref_questions) + m] = other_questions[g[m]]
          /\ \A m, n \in 1..Len(other_questions) :
                m < n => \/ other_questions[g[m]].section_index
                              < other_questions[g[n]].section_index
                         \/ /\ other_questions[g[m]].section_index
                                  = other_questions[g[n]].section_index
                            /\ g[m] < g[n]

\* the iteration order, stated without the sort of the model
IterationOrder ==
    CHOOSE visited \in SeqsUpTo({QuestionsReferenceFirst[k] : k \in 1..Len(QuestionsReferenceFirst)},
                                Len(QuestionsReferenceFirst)) :
        IsIterationOrder(visited, QuestionsOfSource(sources_in, RefSource),
                         QuestionsOfSource(sources_in, OtherSource))

\* the canonical section of a question
CanonicalOf(q) == normalize(normalizer, SectionNameOf(q))

\* the first question of the iteration with a normalized code
FirstWithCode(ncode) ==
    IterationOrder[CHOOSE k \in 1..Len(IterationOrder) :
                      /\ normalize_code(IterationOrder[k].code) = ncode
                      /\ \A j \in 1..(k - 1) : normalize_code(IterationOrder[j].code) # ncode]

\* the canonical names in order of first encounter
RECURSIVE FirstEncounters(_)
FirstEncounters(visited) ==
    IF visited = <<>> THEN <<>>
    ELSE IF \E j \in 1..(Len(visited) - 1) :
                CanonicalOf(visited[j]) = CanonicalOf(visited[Len(visited)])
         THEN FirstEncounters(SubSeq(visited, 1, Len(visited) - 1))
         ELSE Append(FirstEncounters(SubSeq(visited, 1, Len(visited) - 1)),
                     CanonicalOf(visited[Len(visited)]))

\* C18: once ordered_sections has been called, its result lists every
\* normalized code at most once across all sections, each in the section of
\* its first occurrence in the reference-first iteration, and the listed
\* codes are the normalized codes of all questions in all_sources
C18_CodesListedOnce ==
    pc \in {"ordered", "raised"} =>
        /\ pc = "ordered"
        /\ \A m, n \in 1..Len(section_list) :
              \A i \in 1..Len(section_list[m].codes) :
                  \A j \in 1..Len(section_list[n].codes) :
                      section_list[m].codes[i] = section_list[n].codes[j] => m = n /\ i = j
        /\ UNION {{section_list[m].codes[i] : i \in 1..Len(section_list[m].codes)} :
                    m \in 1..Len(section_list)} = AllNormalizedCodes
        /\ \A m \in 1..Len(section_list) :
              \A i \in 1..Len(section_list[m].codes) :
                  section_list[m].name = CanonicalOf(FirstWithCode(section_list[m].codes[i]))

\* C19: once ordered_sections has been called, its result lists each
\* canonical section name exactly once, in order of first encounter in the
\* reference-first iteration sorted by section_index, so that the sections
\* of the reference source precede those found only in other sources and
\* raw names of one canonical name share one section
C19_SectionsInEncounterOrder ==
    pc \in {"ordered", "raised"} =>
        /\ pc = "ordered"
        /\ [m \in 1..Len(section_list) |-> section_list[m].name]
              = FirstEncounters(IterationOrder)
        /\ \A m, n \in 1..Len(section_list) :
              section_list[m].name = section_list[n].name => m = n
        /\ \A m, n \in 1..Len(section_list) :
              /\ \E k \in 1..Len(QuestionsOfSource(sources_in, RefSource)) :
                    CanonicalOf(QuestionsOfSource(sources_in, RefSource)[k])
                       = section_list[n].name
              /\ ~\E k \in 1..Len(QuestionsOfSource(sources_in, RefSource)) :
                    CanonicalOf(QuestionsOfSource(sources_in, RefSource)[k])
                       = section_list[m].name
              => n < m

-----------------------------------------------------------------------------
(* compare_questions on two questions of which exactly one is a Matrix.     *)

ExactlyOneMatrix ==
    (old_question.element_type = "Matrix") # (new_question.element_type = "Matrix")

\* the answer-option codes of both questions (a Matrix has no choices)
AnswerOptionCodes == CodesOfItems(old_question.choices \o new_question.choices)

MatrixRowCodes == CodesOfItems(old_question.matrix_rows \o new_question.matrix_rows)

MatrixColumnCodes ==
    CodesOfItems(FlattenColumns(old_question.matrix_column_groups)
                 \o FlattenColumns(new_question.matrix_column_groups))

\* C27 as stated: when exactly one question is a Matrix, every answer-option
\* code of the other question's choices appears in one of the diff lists of
\* the result
C27_OptionCodesKept ==
    (pc = "done" /\ ExactlyOneMatrix) =>
        AnswerOptionCodes \subseteq CodesOfItems(ItemDiffsOf(question_diff))

\* C27, amended: when exactly one question is a Matrix, the answer options of
\* the other question are not compared: choice_diffs is empty, the codes of
\* matrix_row_diffs are the matrix row codes of both questions and the codes
\* of matrix_column_diffs their flattened column codes, so an answer-option
\* code appears in a diff list only if it is a row or column code too
C27_OptionCodesNotCompared ==
    (pc = "done" /\ ExactlyOneMatrix) =>
        /\ question_diff.choice_diffs = <<>>
        /\ CodesOfItems(question_diff.matrix_row_diffs) = MatrixRowCodes
        /\ CodesOfItems(question_diff.matrix_column_diffs) = MatrixColumnCodes
        /\ \A c \in AnswerOptionCodes :
              c \in CodesOfItems(ItemDiffsOf(question_diff))
                  => c \in MatrixRowCodes \cup MatrixColumnCodes

\* a Matrix with a row compared with a SingleChoice whose answer option has
\* another code, which no diff list holds
C27_Witness ==
    /\ pc = "done"
    /\ old_question.element_type = "Matrix"
    /\ new_question.element_type = "SingleChoice"
    /\ old_question.matrix_rows = <<Item1>>
    /\ new_question.choices = <<Item2>>
    /\ Item2.code \notin CodesOfItems(ItemDiffsOf(question_diff))
    /\ question_diff.status = "structure_changed"

-----------------------------------------------------------------------------
(* compare_surveys applied to one question list on both sides.              *)

\* questions with a repeated item code, a repeated language, two languages,
\* Matrix rows and columns, and codes that normalize to one code
SelfPool ==
    { ChoiceBody(<<"F","X">>, T_ab, <<Item1, Item1Reworded>>),
      ChoiceBody(<<"I","X">>, T_ab \o T_aa, <<Item1, Item2>>),
      MatrixBody(<<"i","X">>),
      Question(<<"Y">>, "Matrix", T_ab_de, <<>>, <<Item2Bilingual, Item1, Item1Reworded>>,
               <<MatrixColumnGroup(<<Item1>>), MatrixColumnGroup(<<Item1Reworded>>)>>),
      ChoiceBody(<<>>, <<>>, <<ItemEmptyCode>>) }

InitSelf ==
    /\ pc = "start"
    /\ questions_a \in SeqsUpTo(SelfPool, MaxQuestions)
    /\ questions_b = questions_a
    /\ threshold \in Thresholds
    /\ question_diffs = <<>>
    /\ NormIdle /\ TextsIdle /\ QuestionIdle /\ LaterIdle

NextSelf == CompareSurveys

SpecSelf == InitSelf /\ [][NextSelf]_vars

\* C30: compare_surveys of a question list with itself returns one diff per
\* normalized code, each with status "identical", none added or removed,
\* whatever the threshold
C30_SelfComparisonClean ==
    (pc = "done" /\ questions_b = questions_a) =>
        /\ \A n \in 1..Len(question_diffs) : question_diffs[n].status = "identical"
        /\ added(question_diffs) = <<>>
        /\ removed(question_diffs) = <<>>
        /\ {question_diffs[n].code : n \in 1..Len(question_diffs)}
              = {normalize_code(questions_a[k].code) : k \in 1..Len(questions_a)}

\* two questions of one normalized code, one with a repeated item code and
\* one a Matrix, compared with themselves under a threshold above 1.0
C30_Witness ==
    /\ pc = "done"
    /\ questions_b = questions_a
    /\ Len(questions_a) = 2
    /\ questions_a[1].choices = <<Item1, Item1Reworded>>
    /\ questions_a[2].element_type = "Matrix"
    /\ normalize_code(questions_a[1].code) = normalize_code(questions_a[2].code)
    /\ FloatGt(threshold, FloatOne)
    /\ Len(question_diffs) = 1
    /\ question_diffs[1].status = "identical"
    /\ question_diffs[1].matrix_row_diffs # <<>>

-----------------------------------------------------------------------------
(* generate_master.main from the sorting of the exports on: the extracts    *)
(* are put in the order of their filename dates and merged.                 *)

\* questions of three exports: one code under two prefixes with different
\* content, and a second code
MergeQuestionX == WithSectionIndex(SectionedQuestion(ChoiceBody(<<"F","X">>, T_ab, <<Item1>>), NameX), 0)
MergeQuestionIX == WithSectionIndex(SectionedQuestion(ChoiceBody(<<"I","X">>, T_aa, <<>>), None), 1)
MergeQuestionY == WithSectionIndex(SectionedQuestion(MatrixBody(<<"Y">>), NameY), 0)

\* the questions of an export
ExportQuestionLists ==
    { <<>>, <<MergeQuestionX>>, <<MergeQuestionIX>>, <<MergeQuestionY>>,
      <<MergeQuestionX, MergeQuestionY>>, <<MergeQuestionY, MergeQuestionIX>> }

\* the YYYYMMDD of a filename as a number, 0 for a filename without a date
ExportDates == {0, 20250101, 20260127}

ExportFile(date, questions) == [date |-> date, questions |-> questions]

ExportFiles ==
    {ExportFile(date, questions) : date \in ExportDates, questions \in ExportQuestionLists}

InitMerge ==
    /\ pc = "start"
    /\ exports_in \in SeqsUpTo(ExportFiles, MaxExports)
    /\ masters = <<>>
    /\ merged_master = <<>>
    /\ threshold = DEFAULT_SIMILARITY_THRESHOLD
    /\ NormIdle /\ TextsIdle /\ QuestionIdle /\ SurveyIdle /\ ItemsIdle /\ ViewsIdle
    /\ SectionsIdle /\ MasterIdle /\ PureIdle /\ ExportIdle

\* generate_master.main: sys.exit(1) if the directory holds no export;
\* otherwise json_files = sort_files_by_date(json_files) and the loop
\* building masters, which ends main with the TypeError of load_and_parse at
\* the first export holding a question element
SortExports ==
    /\ pc = "start"
    /\ masters' = IF exports_in = <<>> \/ MainRaises(exports_in) THEN <<>>
                  ELSE ExtractsOf(sort_files_by_date(exports_in))
    /\ pc' = IF exports_in = <<>> THEN "exited"
             ELSE IF MainRaises(exports_in) THEN "raised" ELSE "sorted"
    /\ UNCHANGED <<exports_in, merged_master, threshold, normVars, textVars, questionVars,
                   surveyVars, itemVars, viewVars, sectionVars, masterVars, pureVars, exportVars>>

\* generate_master.main: merged = merge_masters(masters)
MergeMasters ==
    /\ pc = "sorted"
    /\ merged_master' = merge_masters(masters)
    /\ pc' = "merged"
    /\ UNCHANGED <<exports_in, masters, threshold, normVars, textVars, questionVars,
                   surveyVars, itemVars, viewVars, sectionVars, masterVars, pureVars, exportVars>>

\* merge_masters called on the per-export extracts ordered oldest to newest
\* by date, the order in which main lists them
MergeExtracts ==
    /\ pc = "start"
    /\ masters' = ExtractsOf(sort_files_by_date(exports_in))
    /\ merged_master' = merge_masters(ExtractsOf(sort_files_by_date(exports_in)))
    /\ pc' = "merged"
    /\ UNCHANGED <<exports_in, threshold, normVars, textVars, questionVars,
                   surveyVars, itemVars, viewVars, sectionVars, masterVars, pureVars, exportVars>>

NextMerge == SortExports \/ MergeMasters \/ MergeExtracts

SpecMerge == InitMerge /\ [][NextMerge]_vars

\* the extract of an export
ExtractOfExport(i) == extract_master(exports_in[i].questions)

\* the exports whose extract has a record for a normalized code
ExportsWithCode(c) == {i \in 1..Len(exports_in) : DictHas(ExtractOfExport(i), c)}

\* C21: the merged master has the union of the exports' keys, and the record
\* of each key is that of an export containing the key that no export
\* containing it is dated after
C21_NewestExportWins ==
    pc = "merged" =>
        /\ DictKeySet(merged_master)
              = UNION {DictKeySet(ExtractOfExport(i)) : i \in 1..Len(exports_in)}
        /\ \A c \in DictKeySet(merged_master) :
              \E i \in ExportsWithCode(c) :
                  /\ DictGet(merged_master, c) = DictGet(ExtractOfExport(i), c)
                  /\ \A j \in ExportsWithCode(c) : exports_in[j].date <= exports_in[i].date

-----------------------------------------------------------------------------
(* The master store: extract_master, save_master, a hand edit of the file,  *)
(* load_master, master_to_questions and extract_master again.               *)

T_digit == <<LocalizedText(<<"e","n">>, <<"1">>), LocalizedText(<<"d","e">>, <<" ","a">>)>>

\* questions as the tests of the master store construct them, by the
\* dataclass
DataclassMasterQuestions ==
    { SectionedQuestion(ChoiceBody(<<"F","X">>, T_ab, <<Item1>>), NameX),
      SectionedQuestion(MatrixBody(<<"Y">>), None) }

\* questions carrying a section_index
IndexedMasterQuestions ==
    { MergeQuestionX, MergeQuestionIX, MergeQuestionY,
      WithSectionIndex(SectionedQuestion(ChoiceBody(<<"1">>, T_digit, <<Item2Bilingual>>),
                                         NameSpaceX), 1) }

MasterInputFamilies == {DataclassMasterQuestions, IndexedMasterQuestions}

\* the texts a hand edit writes
EditedTexts == {<<"b","b">>, <<"2">>, <<"N","o">>, <<"0","1","0">>, <<" ","a">>, <<"b","b"," ">>}

InitMaster ==
    /\ pc = "start"
    /\ \E pool \in MasterInputFamilies : master_qs \in SeqsUpTo(pool, MaxQuestions)
    /\ master_dict = NoRecord
    /\ master_file = <<>>
    /\ master_edit = NoRecord
    /\ master_loaded = <<>>
    /\ master_rebuilt = NoRecord
    /\ master_again = <<>>
    /\ threshold = DEFAULT_SIMILARITY_THRESHOLD
    /\ NormIdle /\ TextsIdle /\ QuestionIdle /\ SurveyIdle /\ ItemsIdle /\ ViewsIdle
    /\ SectionsIdle /\ MergeIdle /\ PureIdle /\ ExportIdle

\* master = extract_master(questions)
ExtractMaster ==
    /\ pc = "start"
    /\ master_dict' = IF ExtractMasterRaises(master_qs) THEN Raised("AttributeError")
                      ELSE Returned(extract_master(master_qs))
    /\ pc' = IF ExtractMasterRaises(master_qs) THEN "raised" ELSE "extracted"
    /\ UNCHANGED <<master_qs, master_file, master_edit, master_loaded, master_rebuilt,
                   master_again, threshold, normVars, textVars, questionVars, surveyVars,
                   itemVars, viewVars, sectionVars, mergeVars, pureVars, exportVars>>

\* save_master(master, path)
SaveMaster ==
    /\ pc = "extracted"
    /\ master_file' = save_master(master_dict.value)
    /\ pc' = "saved"
    /\ UNCHANGED <<master_qs, master_dict, master_edit, master_loaded, master_rebuilt,
                   master_again, threshold, normVars, textVars, questionVars, surveyVars,
                   itemVars, viewVars, sectionVars, mergeVars, pureVars, exportVars>>

\* a hand edit of one text value in the file
EditMasterFile ==
    /\ pc = "saved"
    /\ \E n \in 1..Len(master_file) :
          \E m \in 1..Len(DictGet(master_file[n].value, "texts")) :
              \E text \in EditedTexts :
                  /\ master_file' = EditedDocument(master_file, n, m, text)
                  /\ master_edit' = [question |-> n, language |-> m, text |-> text]
    /\ pc' = "edited"
    /\ UNCHANGED <<master_qs, master_dict, master_loaded, master_rebuilt, master_again,
                   threshold, normVars, textVars, questionVars, surveyVars, itemVars,
                   viewVars, sectionVars, mergeVars, pureVars, exportVars>>

\* loaded = load_master(path)
LoadMaster ==
    /\ pc \in {"saved", "edited"}
    /\ master_loaded' = load_master(master_file)
    /\ pc' = "loaded"
    /\ UNCHANGED <<master_qs, master_dict, master_file, master_edit, master_rebuilt,
                   master_again, threshold, normVars, textVars, questionVars, surveyVars,
                   itemVars, viewVars, sectionVars, mergeVars, pureVars, exportVars>>

\* questions = master_to_questions(master), on the extract
MasterToQuestions ==
    /\ pc = "extracted"
    /\ master_rebuilt' = master_to_questions(master_dict.value)
    /\ pc' = IF MasterToQuestionsRaises(master_dict.value) THEN "raised" ELSE "rebuilt"
    /\ UNCHANGED <<master_qs, master_dict, master_file, master_edit, master_loaded,
                   master_again, threshold, normVars, textVars, questionVars, surveyVars,
                   itemVars, viewVars, sectionVars, mergeVars, pureVars, exportVars>>

\* extract_master(questions), on the reconstructed questions
ExtractAgain ==
    /\ pc = "rebuilt"
    /\ ~ExtractMasterRaises(master_rebuilt.value)
    /\ master_again' = extract_master(master_rebuilt.value)
    /\ pc' = "extracted again"
    /\ UNCHANGED <<master_qs, master_dict, master_file, master_edit, master_loaded,
                   master_rebuilt, threshold, normVars, textVars, questionVars, surveyVars,
                   itemVars, viewVars, sectionVars, mergeVars, pureVars, exportVars>>

NextMaster ==
    \/ ExtractMaster \/ SaveMaster \/ EditMasterFile \/ LoadMaster
    \/ MasterToQuestions \/ ExtractAgain

SpecMaster == InitMaster /\ [][NextMaster]_vars

\* two dicts with the same keys in the same order and, but at entry m, the
\* same values
UnchangedButAt(loaded, saved, m) ==
    /\ Len(loaded) = Len(saved)
    /\ \A k \in 1..Len(loaded) :
          IF k = m THEN loaded[k].key = saved[k].key ELSE loaded[k] = saved[k]

\* C22: once extract_master has been called and the file written by
\* save_master been loaded, the loaded mapping has the normalized codes of
\* the question list as keys and the extract's record for each key, but for
\* the one text value a hand edit changed
C22_SaveLoadRoundTrip ==
    /\ pc = "raised" => master_dict.raised = "none"
    /\ pc = "loaded" =>
          /\ DictKeySet(master_loaded)
                = {normalize_code(master_qs[k].code) : k \in 1..Len(master_qs)}
          /\ DictKeys(master_loaded) = DictKeys(master_dict.value)
          /\ master_edit = NoRecord => master_loaded = master_dict.value
          /\ master_edit # NoRecord =>
                \A n \in 1..Len(master_loaded) :
                    /\ n # master_edit.question
                          => master_loaded[n].value = master_dict.value[n].value
                    /\ Len(master_loaded[n].value) = Len(master_dict.value[n].value)
                    /\ \A i \in 1..Len(master_loaded[n].value) :
                          /\ master_loaded[n].value[i].key = master_dict.value[n].value[i].key
                          /\ master_loaded[n].value[i].key # "texts"
                                => master_loaded[n].value[i] = master_dict.value[n].value[i]
                          /\ (master_loaded[n].value[i].key = "texts"
                              /\ n = master_edit.question)
                                => UnchangedButAt(master_loaded[n].value[i].value,
                                                  master_dict.value[n].value[i].value,
                                                  master_edit.language)

\* C23: once master_to_questions has been called on the extract, it has
\* returned the reconstructed questions, one per key, and extracting them
\* again gives the extract
C23_ReconstructionLossless ==
    /\ (pc = "raised" /\ master_dict.raised = "none") => master_rebuilt.raised = "none"
    /\ pc = "rebuilt" => Len(master_rebuilt.value) = Len(master_dict.value)
    /\ pc = "extracted again" => master_again = master_dict.value

-----------------------------------------------------------------------------
(* The core functions, each called on one collection of questions: the two  *)
(* lists of a comparison, which are also the sources of the normalizer, the *)
(* first being the list extract_master reads.                               *)

\* all_sources of two lists, or without any source
SourceMaps(ref_questions, other_questions) ==
    IF ref_questions = <<>> /\ other_questions = <<>>
    THEN {<<>>, <<[key |-> RefSource, value |-> <<>>], [key |-> OtherSource, value |-> <<>>]>>}
    ELSE {<<[key |-> RefSource, value |-> ref_questions],
            [key |-> OtherSource, value |-> other_questions]>>}

InitCore ==
    /\ pc = "start"
    /\ \E pool \in MasterInputFamilies :
          /\ questions_a \in SeqsUpTo(pool, MaxQuestions)
          /\ questions_b \in SeqsUpTo(pool, MaxQuestions)
    /\ master_qs = questions_a
    /\ sources_in \in SourceMaps(questions_a, questions_b)
    /\ reference_in = RefSource
    /\ aliases_in = <<>>
    /\ question_diffs = <<>>
    /\ normalizer = NoRecord
    /\ section_list = <<>>
    /\ master_dict = NoRecord
    /\ master_file = <<>>
    /\ master_edit = NoRecord
    /\ master_loaded = <<>>
    /\ master_rebuilt = NoRecord
    /\ master_again = <<>>
    /\ threshold = DEFAULT_SIMILARITY_THRESHOLD
    /\ NormIdle /\ TextsIdle /\ QuestionIdle /\ ItemsIdle /\ ViewsIdle /\ MergeIdle
    /\ PureIdle /\ ExportIdle

NextCore ==
    \/ CompareSurveys \/ ExtractMaster \/ MasterToQuestions \/ BuildNormalizer
    \/ OrderSections

SpecCore == InitCore /\ [][NextCore]_vars

\* C24: no core function raises, and on empty input compare_surveys returns
\* no diff, extract_master an empty mapping, master_to_questions no question,
\* build_section_normalizer an empty name map and ordered_sections no section
C24_CoreTotal ==
    /\ pc # "raised"
    /\ (pc = "done" /\ questions_a = <<>> /\ questions_b = <<>>) => question_diffs = <<>>
    /\ (pc = "extracted" /\ master_qs = <<>>) => master_dict = Returned(<<>>)
    /\ (pc = "rebuilt" /\ master_qs = <<>>) => master_rebuilt = Returned(<<>>)
    /\ (pc = "built" /\ questions_a = <<>> /\ questions_b = <<>>)
          => normalizer.name_map = <<>> /\ all_aliases(normalizer) = <<>>
    /\ (pc = "ordered" /\ questions_a = <<>> /\ questions_b = <<>>) => section_list = <<>>

-----------------------------------------------------------------------------
(* The comparison and normalization operations called one after another on  *)
(* the caller's objects, each operation called a second time with the       *)
(* arguments of its first call.  The objects are held by reference: a       *)
(* reference is the position of the object in heap, an assignment or an     *)
(* append changes the object its target refers to, and a constructor, a     *)
(* list display or sorted() makes a new object.                             *)

\* the operations called on one question of each list
PairCalls ==
    {"compare_texts", "compare_choices", "compare_matrix_rows", "compare_matrix_columns",
     "compare_questions"}

\* the operations called on the two lists
ListCalls == {"compare_surveys", "build_section_normalizer", "ordered_sections"}

\* an object: its class and its content
Object(kind, value) == [kind |-> kind, value |-> value]

\* a new object, referred to by the number of objects there are with it
NewObject(objects, kind, value) == Append(objects, Object(kind, value))

\* target.code = value
SetCode(objects, target, value) == [objects EXCEPT ![target].value.code = value]

\* target.append(item)
ListAppend(objects, target, item) == [objects EXCEPT ![target].value = Append(@, item)]

\* the Question objects of a list, read
QuestionsAt(objects, list_ref) ==
    [k \in 1..Len(objects[list_ref].value) |-> objects[objects[list_ref].value[k]].value]

\* the objects a list of references refers to, read
ValuesAt(objects, refs) == [k \in 1..Len(refs) |-> objects[refs[k]].value]

\* {q.normalized_code: q for q in questions}, the values being the Question
\* objects of the list
RefIndex(objects, list_ref) ==
    DictOf(NormalizedCodesOf(QuestionsAt(objects, list_ref)), objects[list_ref].value)

\* what a call leaves: the objects after it, and what it returned or raised
CallResult(objects, outcome) == [heap |-> objects, outcome |-> outcome]

\* a call that returns the object it made last
ReturnsNew(objects) == CallResult(objects, Returned(objects[Len(objects)].value))

\* compare_texts(old, new, threshold): diffs = [] and its appends, returned
RunCompareTexts(objects, old_ref, new_ref, th) ==
    ReturnsNew(NewObject(objects, "list",
                         compare_texts(objects[old_ref].value.texts,
                                       objects[new_ref].value.texts, th)))

\* compare_choices(old.choices, new.choices, threshold)
RunCompareChoices(objects, old_ref, new_ref, th) ==
    ReturnsNew(NewObject(objects, "list",
                         compare_choices(objects[old_ref].value.choices,
                                         objects[new_ref].value.choices, th)))

\* compare_matrix_rows(old.matrix_rows, new.matrix_rows, threshold)
RunCompareMatrixRows(objects, old_ref, new_ref, th) ==
    ReturnsNew(NewObject(objects, "list",
                         compare_matrix_rows(objects[old_ref].value.matrix_rows,
                                             objects[new_ref].value.matrix_rows, th)))

\* compare_matrix_columns(old.matrix_column_groups, new.matrix_column_groups,
\*                        threshold)
RunCompareMatrixColumns(objects, old_ref, new_ref, th) ==
    ReturnsNew(NewObject(objects, "list",
                         compare_matrix_columns(objects[old_ref].value.matrix_column_groups,
                                                objects[new_ref].value.matrix_column_groups,
                                                th)))

\* compare_questions(old, new, threshold): return QuestionDiff(...)
NewQuestionDiff(objects, old_ref, new_ref, th) ==
    NewObject(objects, "QuestionDiff",
              compare_questions(objects[old_ref].value, objects[new_ref].value, th))

RunCompareQuestions(objects, old_ref, new_ref, th) ==
    ReturnsNew(NewQuestionDiff(objects, old_ref, new_ref, th))

\* diff = compare_questions(qa, qb, threshold) with the normalized code
\* assigned to the question qa
MatchedDiffCodeOnQuestion(objects, qa_ref, qb_ref, norm_code, th) ==
    SetCode(NewQuestionDiff(objects, qa_ref, qb_ref, th), qa_ref, norm_code)

\* diff = compare_questions(qa, qb, threshold); diff.code = norm_code
MatchedDiffObject(objects, qa_ref, qb_ref, norm_code, th) ==
    SetCode(NewQuestionDiff(objects, qa_ref, qb_ref, th), Len(objects) + 1, norm_code)

\* the QuestionDiff made in the loop "for norm_code in all_codes"
SurveyDiffObject(objects, map_a, map_b, norm_code, th) ==
    IF ~DictHas(map_a, norm_code)
    THEN NewObject(objects, "QuestionDiff",
                   QuestionDiff(norm_code,
                                objects[DictGet(map_b, norm_code)].value.element_type,
                                "added", <<>>, <<>>, <<>>, <<>>))
    ELSE IF ~DictHas(map_b, norm_code)
    THEN NewObject(objects, "QuestionDiff",
                   QuestionDiff(norm_code,
                                objects[DictGet(map_a, norm_code)].value.element_type,
                                "removed", <<>>, <<>>, <<>>, <<>>))
    ELSE MatchedDiffObject(objects, DictGet(map_a, norm_code), DictGet(map_b, norm_code),
                           norm_code, th)

\* the loop "for norm_code in all_codes": diffs.append(...) of the
\* QuestionDiff just made
RECURSIVE SurveyLoop(_, _, _, _, _, _)
SurveyLoop(objects, diffs, map_a, map_b, all_codes, th) ==
    IF all_codes = <<>> THEN objects
    ELSE SurveyLoop(ListAppend(SurveyDiffObject(objects, map_a, map_b, Head(all_codes), th),
                               diffs, Len(objects) + 1),
                    diffs, map_a, map_b, Tail(all_codes), th)

\* return ComparisonResult(..., question_diffs=diffs)
SurveysResult(objects, diffs) ==
    CallResult(objects, Returned(ValuesAt(objects, objects[diffs].value)))

\* compare_surveys: the two indexes, all_codes, diffs = [] and the loop
RunCompareSurveys(objects, a_ref, b_ref, th) ==
    SurveysResult(
        SurveyLoop(NewObject(objects, "list", <<>>), Len(objects) + 1,
                   RefIndex(objects, a_ref), RefIndex(objects, b_ref),
                   FromKeys(NormalizedCodesOf(QuestionsAt(objects, a_ref))
                            \o NormalizedCodesOf(QuestionsAt(objects, b_ref))), th),
        Len(objects) + 1)

\* all_sources, read: each list with its Question objects
SourcesAt(objects, sources_ref) ==
    [i \in 1..Len(objects[sources_ref].value) |->
        [key |-> objects[sources_ref].value[i].key,
         value |-> QuestionsAt(objects, objects[sources_ref].value[i].value)]]

\* aliases = aliases or {}: the objects, with a new dict if the caller's is
\* empty
AliasesOrNew(objects, aliases_ref) ==
    IF objects[aliases_ref].value = <<>> THEN NewObject(objects, "dict", <<>>) ELSE objects

\* aliases = aliases or {}: what the local name refers to
AliasesRef(objects, aliases_ref) ==
    IF objects[aliases_ref].value = <<>> THEN Len(objects) + 1 ELSE aliases_ref

\* return SectionNormalizer(name_map, alias_display, raw_names_by_source,
\*                          reference_source), the four made by the builder
NewNormalizer(objects, sources_ref, reference_source, aliases) ==
    NewObject(objects, "SectionNormalizer",
              build_section_normalizer(SourcesAt(objects, sources_ref), reference_source,
                                       objects[aliases].value))

RunBuildNormalizer(objects, sources_ref, reference_source, aliases_ref) ==
    ReturnsNew(NewNormalizer(AliasesOrNew(objects, aliases_ref), sources_ref,
                             reference_source, AliasesRef(objects, aliases_ref)))

\* sorted(questions, key=lambda q: q.section_index), on references
RECURSIVE SortedRefs(_, _)
TakeFirstRef(objects, refs, i) == <<refs[i]>> \o SortedRefs(objects, RemoveAt(refs, i))

SortedRefs(objects, refs) ==
    IF refs = <<>> THEN <<>>
    ELSE TakeFirstRef(objects, refs, FirstByIndex(ValuesAt(objects, refs)))

\* sorted(questions, key=lambda q: q.section_index): a new list
SortedObject(objects, list_ref) ==
    NewObject(objects, "list", SortedRefs(objects, objects[list_ref].value))

\* whether the key of sorted() raises AttributeError for a question of the
\* list
SortedRaises(objects, list_ref) ==
    \E k \in 1..Len(objects[list_ref].value) :
        ~HasSectionIndex(objects[objects[list_ref].value[k]].value)

\* what the loop "for source_name in sources" leaves
Visit(objects, visited, raised) == [heap |-> objects, visited |-> visited, raised |-> raised]

\* the loop "for source_name in sources": each list sorted into a new list,
\* whose questions are visited
RECURSIVE VisitSources(_, _, _, _)
VisitSorted(objects, sources_ref, sources, visited) ==
    VisitSources(objects, sources_ref, sources, visited \o objects[Len(objects)].value)

VisitSources(objects, sources_ref, sources, visited) ==
    IF sources = <<>> THEN Visit(objects, visited, "none")
    ELSE IF SortedRaises(objects, DictGet(objects[sources_ref].value, Head(sources)))
    THEN Visit(objects, visited, "AttributeError")
    ELSE VisitSorted(SortedObject(objects,
                                  DictGet(objects[sources_ref].value, Head(sources))),
                     sources_ref, Tail(sources), visited)

\* result = [] and its appends, returned, unless sorted() raised
SectionsResult(self, visit) ==
    IF visit.raised # "none" THEN CallResult(visit.heap, Raised(visit.raised))
    ELSE ReturnsNew(NewObject(visit.heap, "list",
                              SectionEntries(self,
                                  SectionCodes(self, ValuesAt(visit.heap, visit.visited)))))

\* self.ordered_sections(all_sources)
OrderedSectionsOf(built, sources_ref) ==
    SectionsResult(built.outcome.value,
        VisitSources(built.heap, sources_ref,
                     _ordered_sources(built.heap[sources_ref].value,
                                      built.outcome.value.reference_source),
                     <<>>))

\* ordered_sections of the normalizer built from the same sources
RunOrderedSections(objects, sources_ref, reference_source, aliases_ref) ==
    OrderedSectionsOf(RunBuildNormalizer(objects, sources_ref, reference_source, aliases_ref),
                      sources_ref)

\* the call of an operation on the caller's objects
Run(call, objects, old_ref, new_ref, roots, th) ==
    CASE call = "compare_texts" -> RunCompareTexts(objects, old_ref, new_ref, th)
      [] call = "compare_choices" -> RunCompareChoices(objects, old_ref, new_ref, th)
      [] call = "compare_matrix_rows" -> RunCompareMatrixRows(objects, old_ref, new_ref, th)
      [] call = "compare_matrix_columns" ->
            RunCompareMatrixColumns(objects, old_ref, new_ref, th)
      [] call = "compare_questions" -> RunCompareQuestions(objects, old_ref, new_ref, th)
      [] call = "compare_surveys" -> RunCompareSurveys(objects, roots.a, roots.b, th)
      [] call = "build_section_normalizer" ->
            RunBuildNormalizer(objects, roots.sources, RefSource, roots.aliases)
      [] call = "ordered_sections" ->
            RunOrderedSections(objects, roots.sources, RefSource, roots.aliases)

\* the manual alias tables passed to build_section_normalizer
PureAliasTables == {<<>>, <<[key |-> NameX, value |-> NameZ]>>}

\* the caller's objects: the Question objects of two lists, the two lists,
\* all_sources and aliases
QuestionObjects(questions) == [k \in 1..Len(questions) |-> Object("Question", questions[k])]

RefsFrom(n, count) == [k \in 1..count |-> n + k]

CallerObjects(qs_a, qs_b, aliases) ==
    QuestionObjects(qs_a) \o QuestionObjects(qs_b)
    \o << Object("list", RefsFrom(0, Len(qs_a))),
          Object("list", RefsFrom(Len(qs_a), Len(qs_b))),
          Object("dict", <<[key |-> RefSource, value |-> Len(qs_a) + Len(qs_b) + 1],
                           [key |-> OtherSource, value |-> Len(qs_a) + Len(qs_b) + 2]>>),
          Object("dict", aliases) >>

\* the caller's names for its objects, and the objects as they are before
\* any call
CallerNames(objects, n) ==
    [heap |-> objects, a |-> n + 1, b |-> n + 2, sources |-> n + 3, aliases |-> n + 4]

InitPure ==
    /\ pc = "start"
    /\ \E pool \in MasterInputFamilies :
          \E qs_a \in SeqsUpTo(pool, MaxQuestions), qs_b \in SeqsUpTo(pool, MaxQuestions) :
              \E aliases \in PureAliasTables :
                  /\ heap = CallerObjects(qs_a, qs_b, aliases)
                  /\ given = CallerNames(CallerObjects(qs_a, qs_b, aliases),
                                         Len(qs_a) + Len(qs_b))
    /\ first_call = NoRecord
    /\ second_call = NoRecord
    /\ threshold = DEFAULT_SIMILARITY_THRESHOLD
    /\ NormIdle /\ TextsIdle /\ QuestionIdle /\ SurveyIdle /\ ItemsIdle /\ ViewsIdle
    /\ SectionsIdle /\ MergeIdle /\ MasterIdle /\ ExportIdle

\* one call; the caller keeps what was returned, and its own objects
CallOnce(call, i, j) ==
    /\ pc = "start"
    /\ \E run \in {Run(call, heap, i, j, given, threshold)} :
          /\ first_call' = [call |-> call, i |-> i, j |-> j, outcome |-> run.outcome]
          /\ heap' = SubSeq(run.heap, 1, Len(heap))
    /\ second_call' = NoRecord
    /\ pc' = "called"
    /\ UNCHANGED <<given, surveyVars, sectionVars, threshold, normVars, textVars,
                   questionVars, itemVars, viewVars, mergeVars, masterVars,
                   exportVars>>

\* a call on the Question objects at one position of the two lists
CallOnPair(call) ==
    \E k \in 1..Len(heap[given.a].value) :
        /\ k <= Len(heap[given.b].value)
        /\ CallOnce(call, heap[given.a].value[k], heap[given.b].value[k])

CallCompareTexts == CallOnPair("compare_texts")
CallCompareChoices == CallOnPair("compare_choices")
CallCompareMatrixRows == CallOnPair("compare_matrix_rows")
CallCompareMatrixColumns == CallOnPair("compare_matrix_columns")
CallCompareQuestions == CallOnPair("compare_questions")
CallCompareSurveys == CallOnce("compare_surveys", 0, 0)
CallBuildNormalizer == CallOnce("build_section_normalizer", 0, 0)
CallOrderedSections == CallOnce("ordered_sections", 0, 0)

\* the operation of the last call, called again with the same arguments
CallAgain ==
    /\ pc = "called"
    /\ \E run \in {Run(first_call.call, heap, first_call.i, first_call.j, given, threshold)} :
          /\ second_call' = [call |-> first_call.call, i |-> first_call.i,
                             j |-> first_call.j, outcome |-> run.outcome]
          /\ heap' = SubSeq(run.heap, 1, Len(heap))
    /\ pc' = "repeated"
    /\ UNCHANGED <<given, first_call, surveyVars, sectionVars, threshold, normVars,
                   textVars, questionVars, itemVars, viewVars, mergeVars, masterVars,
                   exportVars>>

\* the caller lets go of the two outcomes and goes on to the next call
DropOutcomes ==
    /\ pc = "repeated"
    /\ first_call' = NoRecord
    /\ second_call' = NoRecord
    /\ pc' = "start"
    /\ UNCHANGED <<given, heap, surveyVars, sectionVars, threshold, normVars, textVars,
                   questionVars, itemVars, viewVars, mergeVars, masterVars,
                   exportVars>>

NextPure ==
    \/ CallCompareTexts \/ CallCompareChoices \/ CallCompareMatrixRows
    \/ CallCompareMatrixColumns \/ CallCompareQuestions \/ CallCompareSurveys
    \/ CallBuildNormalizer \/ CallOrderedSections \/ CallAgain \/ DropOutcomes

SpecPure == InitPure /\ [][NextPure]_vars

\* C25: after any sequence of calls every object of the caller (each
\* Question with its code, texts, choices, matrix rows and column groups,
\* each list with its questions in their order, all_sources and aliases) is
\* as it was before the first call, and an operation called again with the
\* same arguments has the outcome of its first call
C25_InputsKeptAndRepeatable ==
    /\ heap = given.heap
    /\ pc = "repeated" => second_call.outcome = first_call.outcome

\* compare_surveys returned twice for two lists of questions built by the
\* dataclass, having assigned a normalized code that is not the code of the
\* matched question
C25_Witness ==
    /\ pc = "repeated"
    /\ second_call.call = "compare_surveys"
    /\ second_call.outcome.raised = "none"
    /\ Len(heap[given.a].value) = 2
    /\ \A k \in 1..Len(heap[given.a].value) :
          ~HasSectionIndex(QuestionsAt(heap, given.a)[k])
    /\ \E n \in 1..Len(second_call.outcome.value) :
          /\ second_call.outcome.value[n].status \notin {"added", "removed"}
          /\ \E k \in 1..Len(heap[given.a].value) :
                /\ normalize_code(QuestionsAt(heap, given.a)[k].code)
                      = second_call.outcome.value[n].code
                /\ QuestionsAt(heap, given.a)[k].code # second_call.outcome.value[n].code

-----------------------------------------------------------------------------
(* export.py: export_data, called as scripts/generate_report.py calls it,   *)
(* with the normalizer built from all sources, or without a normalizer.     *)
(* The entries id, short_names, languages and diffs of the returned object  *)
(* are computed from the arguments alone and are left out.                  *)

MasterSource == <<"m","a","s","t","e","r">>

\* {"code": c.code, "texts": _localized_texts_to_dict(c.texts)} for each item
_export_items(items) == _items_to_dicts(items)

\* d["matrix_rows"], d["matrix_columns"] for a Matrix, d["choices"] otherwise
_question_items_to_dict(q) ==
    IF q.element_type = "Matrix"
    THEN <<[key |-> "matrix_rows", value |-> _export_items(q.matrix_rows)],
           [key |-> "matrix_columns",
            value |-> _export_items(FlattenColumns(q.matrix_column_groups))]>>
    ELSE <<[key |-> "choices", value |-> _export_items(q.choices)]>>

\* export._question_to_dict
_question_to_dict(q) ==
    <<[key |-> "code", value |-> q.code],
      [key |-> "element_type", value |-> q.element_type],
      [key |-> "section_name", value |-> q.section_name],
      [key |-> "texts", value |-> _texts_to_dict(q.texts)]>>
    \o _question_items_to_dict(q)

\* all_sources: "master" first if master_questions is given, then
\* all_sources.update(questions_by_source)
ExportAllSources(questions_by_source, is_given, master_questions) ==
    DictUpdate(IF is_given THEN <<[key |-> MasterSource, value |-> master_questions]>>
               ELSE <<>>,
               questions_by_source)

\* questions_dict[source_name][q.normalized_code] = _question_to_dict(q)
QuestionsDictOf(questions) ==
    DictOf(NormalizedCodesOf(questions),
           [k \in 1..Len(questions) |-> _question_to_dict(questions[k])])

QuestionsDict(all_sources) ==
    [i \in 1..Len(all_sources) |->
        [key |-> all_sources[i].key, value |-> QuestionsDictOf(all_sources[i].value)]]

\* all_codes: the keys of every source's dict
AllCodes(questions_dict) ==
    UNION {DictKeySet(questions_dict[i].value) : i \in 1..Len(questions_dict)}

\* [q for s, qs in all_sources.items() if s != default_reference for q in qs]
RECURSIVE OtherSourcesQuestions(_, _)
OtherSourcesQuestions(all_sources, default_reference) ==
    IF all_sources = <<>> THEN <<>>
    ELSE (IF Head(all_sources).key # default_reference THEN Head(all_sources).value
          ELSE <<>>)
         \o OtherSourcesQuestions(Tail(all_sources), default_reference)

\* the body of either loop of the fallback for one question
FallbackVisit(sections, q) ==
    ListCode(OpenSection(sections, SectionNameOf(q)), SectionNameOf(q),
             normalize_code(q.code))

\* sections after the two loops of the fallback
RECURSIVE FallbackSections(_)
FallbackSections(visited) ==
    IF visited = <<>> THEN <<>>
    ELSE FallbackVisit(FallbackSections(SubSeq(visited, 1, Len(visited) - 1)),
                       visited[Len(visited)])

\* whether sorted(ref_source, key=lambda q: q.section_index) raises
\* AttributeError
FallbackRaises(ref_source) == \E k \in 1..Len(ref_source) : ~HasSectionIndex(ref_source[k])

\* whether export_data raises
ExportRaises(all_sources, default_reference, section_normalizer) ==
    IF section_normalizer # NoRecord THEN OrderedSectionsRaises(all_sources)
    ELSE FallbackRaises(QuestionsOfSource(all_sources, default_reference))

\* {s["name"]: s["codes"] for s in section_list}
SectionsOfList(the_list) ==
    DictOf([i \in 1..Len(the_list) |-> the_list[i].name],
           [i \in 1..Len(the_list) |-> the_list[i].codes])

\* sections, by the normalizer or by the fallback
ExportSections(all_sources, default_reference, section_normalizer) ==
    IF section_normalizer # NoRecord
    THEN SectionsOfList(ordered_sections(section_normalizer, all_sources))
    ELSE FallbackSections(
             SortedBySectionIndex(QuestionsOfSource(all_sources, default_reference))
             \o OtherSourcesQuestions(all_sources, default_reference))

\* section_aliases
ExportAliases(section_normalizer) ==
    IF section_normalizer # NoRecord THEN all_aliases(section_normalizer) ELSE <<>>

\* meta, with "section_aliases" only if there are any
ExportMeta(sources, default_reference, sections, total_questions, section_aliases) ==
    IF section_aliases = <<>>
    THEN [sources |-> sources, default_reference |-> default_reference,
          sections |-> sections, total_questions |-> total_questions]
    ELSE [sources |-> sources, default_reference |-> default_reference,
          sections |-> sections, total_questions |-> total_questions,
          section_aliases |-> section_aliases]

ExportObject(all_sources, questions_dict, default_reference, section_normalizer) ==
    [meta |-> ExportMeta(DictKeys(questions_dict), default_reference,
                         ExportSections(all_sources, default_reference, section_normalizer),
                         Cardinality(AllCodes(questions_dict)),
                         ExportAliases(section_normalizer)),
     questions |-> questions_dict]

export_data(by_source, is_given, master_questions, default_reference, section_normalizer) ==
    IF ExportRaises(ExportAllSources(by_source, is_given, master_questions),
                    default_reference, section_normalizer)
    THEN Raised("AttributeError")
    ELSE Returned(ExportObject(
             ExportAllSources(by_source, is_given, master_questions),
             QuestionsDict(ExportAllSources(by_source, is_given, master_questions)),
             default_reference, section_normalizer))

\* questions_by_source: one source, or a second source before it;
\* generate_report.main gets no further than its exit without an export
ExportSourceMaps(pool) ==
    {<<[key |-> RefSource, value |-> qs]>> : qs \in SeqsUpTo(pool, MaxQuestions)}
    \cup {<<[key |-> OtherSource, value |-> <<q>>], [key |-> RefSource, value |-> qs]>> :
            q \in pool, qs \in SeqsUpTo(pool, MaxQuestions)}

\* default_ref = "master" if "master" in all_sources else source_names[0]
default_ref(all_sources) ==
    IF DictHas(all_sources, MasterSource) THEN MasterSource ELSE DictKeys(all_sources)[1]

InitExport ==
    /\ pc = "start"
    /\ master_given \in BOOLEAN
    /\ \E pool \in MasterInputFamilies :
          /\ master_qs \in IF master_given THEN SeqsUpTo(pool, MaxQuestions) ELSE {<<>>}
          /\ sources_in \in ExportSourceMaps(pool)
    /\ reference_in = NoString
    /\ aliases_in \in PureAliasTables
    /\ normalizer = NoRecord
    /\ section_list = <<>>
    /\ exported = NoRecord
    /\ master_dict = NoRecord /\ master_file = <<>> /\ master_edit = NoRecord
    /\ master_loaded = <<>> /\ master_rebuilt = NoRecord /\ master_again = <<>>
    /\ threshold = DEFAULT_SIMILARITY_THRESHOLD
    /\ NormIdle /\ TextsIdle /\ QuestionIdle /\ SurveyIdle /\ ItemsIdle /\ ViewsIdle
    /\ MergeIdle /\ PureIdle

\* generate_report.main on the question lists of its sources: default_ref
\* is computed and
\* normalizer = build_section_normalizer(all_sources, default_ref, aliases)
BuildReportNormalizer ==
    /\ pc = "start"
    /\ reference_in' = default_ref(ExportAllSources(sources_in, master_given, master_qs))
    /\ normalizer' = build_section_normalizer(
                         ExportAllSources(sources_in, master_given, master_qs),
                         default_ref(ExportAllSources(sources_in, master_given, master_qs)),
                         aliases_in)
    /\ pc' = "built"
    /\ UNCHANGED <<sources_in, aliases_in, section_list, threshold, normVars,
                   textVars, questionVars, surveyVars, itemVars, viewVars, mergeVars,
                   masterVars, pureVars, exportVars>>

\* generate_report.main: data = export_data(results, questions_by_source,
\*     master_questions=master_questions, default_reference=default_ref,
\*     section_normalizer=normalizer)
ExportData ==
    /\ pc = "built"
    /\ exported' = export_data(sources_in, master_given, master_qs, reference_in, normalizer)
    /\ pc' = IF exported'.raised = "none" THEN "exported" ELSE "raised"
    /\ UNCHANGED <<master_given, sectionVars, threshold, normVars, textVars, questionVars,
                   surveyVars, itemVars, viewVars, mergeVars, masterVars, pureVars>>

\* export_data called without a section normalizer, default_reference being
\* its default "master" or the name of a source
CallExportData ==
    /\ pc = "start"
    /\ \E default_reference \in {MasterSource, RefSource} :
          /\ reference_in' = default_reference
          /\ exported' = export_data(sources_in, master_given, master_qs,
                                     default_reference, NoRecord)
    /\ pc' = IF exported'.raised = "none" THEN "exported" ELSE "raised"
    /\ UNCHANGED <<master_given, sources_in, aliases_in, normalizer, section_list, threshold,
                   normVars, textVars, questionVars, surveyVars, itemVars, viewVars,
                   mergeVars, masterVars, pureVars>>

NextExport == BuildReportNormalizer \/ ExportData \/ CallExportData

SpecExport == InitExport /\ [][NextExport]_vars

\* the normalized codes of the questions of all sources, master included
ExportedCodes ==
    LET all_sources == ExportAllSources(sources_in, master_given, master_qs)
    IN  UNION {{normalize_code(all_sources[i].value[k].code) :
                   k \in 1..Len(all_sources[i].value)} : i \in 1..Len(all_sources)}

\* the places of a code in the code lists of meta.sections
PlacesOf(sections, c) ==
    {<<i, k>> \in (1..Len(sections)) \X (1..MaxQuestions * 3) :
        k <= Len(sections[i].value) /\ sections[i].value[k] = c}

\* the returned object counts the distinct normalized codes and lists each
\* in one section, once
ExportedPartition ==
    pc = "exported" =>
        /\ exported.value.meta.total_questions = Cardinality(ExportedCodes)
        /\ \A c \in ExportedCodes :
              Cardinality(PlacesOf(exported.value.meta.sections, c)) = 1
        /\ \A i \in 1..Len(exported.value.meta.sections) :
              \A k \in 1..Len(exported.value.meta.sections[i].value) :
                  exported.value.meta.sections[i].value[k] \in ExportedCodes

\* C29: export_data returns an object, with or without a section normalizer,
\* whose meta.total_questions is the number of distinct normalized codes of
\* all sources, master included, and whose meta.sections list every such
\* code in exactly one section, exactly once
C29_TotalAndPartition ==
    /\ pc # "raised"
    /\ ExportedPartition

=============================================================================
